---- MODULE Spec2Model ----
(***************************************************************************)
(* Sale-detection core of LittleDeployer/tenshis-sales-bot.                *)
(*                                                                         *)
(* The repository holds several bot variants.  Modelled here:              *)
(*   - TenshisBlockchainBot (src/bot.js 1194-1683): chain polling,         *)
(*     Transfer-log decoding, sale classification, dedup, notification.    *)
(*   - EfficientTenshisBot (src/unnamed/part_000): the WebSocket stream,   *)
(*     its reconnection and its polling fallbacks.                         *)
(*   - TenshisSalesBot, API-polling variant (src/bot.js 670-1108) and      *)
(*     hybrid variant (src/bot.js 37-587): the marketplace API paths, the  *)
(*     collection page, the marketplace logs, dedup and notification.      *)
(*   - the Transfer decoder and the sale classifier as pure functions,     *)
(*     each with a harness specification that draws its inputs.            *)
(*                                                                         *)
(* A JavaScript async function runs atomically between two awaits, so      *)
(* each action below is one such run: from the resolution of an await to   *)
(* the next await (or the end) of the function.                            *)
(***************************************************************************)
EXTENDS Integers, Sequences, FiniteSets, TLC

VARIABLES
    variant,              \* which program this process runs
    chainHeight,          \* environment: height of the chain
    lastProcessedBlock,   \* this.lastProcessedBlock
    lastSeenTransfers,    \* this.lastSeenTransfers, a JS Set: insertion-ordered, no duplicates
    monitoringCount,      \* this.monitoringCount
    initialTimer,         \* the setTimeout(…, 5000) of startMonitoring is still pending
    cyc,                  \* the started checkBlockchainTransfers() calls, one record per call
    hLastBatch,           \* history: the batch of the processTransferEvents call that
                          \* finished last, <<>> if another call ran during it
    hScan,                \* history: the scan that wrote lastProcessedBlock last
    hTrim,                \* history: the last memory-management trim
    hFail,                \* history: the range start and the cursor of the check whose
                          \* getLogs call failed last, until a check computes a range
    socks,                \* stream bot, environment: the sockets connectWebSocket created
    connTimeouts,         \* pending 10 s connection-timeout timers
    reconnTimers,         \* pending reconnect timers
    pollers,              \* polling intervals installed by fallbackToPolling
    wsReconnectAttempts,  \* this.wsReconnectAttempts
    isConnected,          \* this.isConnected
    lastSeenSales,        \* this.lastSeenSales, a JS Set
    salesCount,           \* this.salesCount
    hnd,                  \* the started handleSaleEvent / handleCollectionEvent calls
    messages,             \* stream messages received so far
    hDelays,              \* history: the reconnect delays scheduled since a socket last opened
    hFailures,            \* history: the sockets that failed since a socket last opened
    hCapAt,               \* history: the number of sockets created when scheduleReconnect
                          \* first found the attempt cap reached, 0 before
    hSent,                \* history: the sale notifications channel.send delivered, in order
    now,                  \* secondary-source bots, environment: what Date.now() returns
    marketplaceContract,  \* hybrid bot: this.marketplaceContract is set
    seenSales,            \* this.lastSeenSales of TenshisSalesBot, a JS Set
    checksStarted,        \* the monitoring checks the interval timer has started
    chk,                  \* the started monitoring checks, one record per call
    hPosted,              \* history: the notifications channel.send delivered
    healthCheck,          \* a sendHealthCheck call is awaiting its network calls
    decIn, decOut,        \* decoder harness: a raw log and what decoding it gave
    clsIn, clsOut,        \* classifier harness: a transaction context and the analysis
    clsPrev               \* classifier harness, history: the run before, on the same context

chainVars == <<chainHeight, lastProcessedBlock, lastSeenTransfers, monitoringCount,
               initialTimer, cyc, hLastBatch, hScan, hTrim, hFail>>
streamVars == <<socks, connTimeouts, reconnTimers, pollers, wsReconnectAttempts,
                isConnected, lastSeenSales, salesCount, hnd, messages,
                hDelays, hFailures, hCapAt, hSent>>
srcVars == <<now, marketplaceContract, seenSales, checksStarted, chk, hPosted>>
decVars == <<decIn, decOut>>
clsVars == <<clsIn, clsOut, clsPrev>>
vars == <<variant, healthCheck, chainVars, streamVars, srcVars, decVars, clsVars>>

---------------------------------------------------------------------------
(* Bounds of the model *)

\* the chain grows to this height
MaxHeight == 3
\* CONFIG.BLOCK_RANGE (1000 in src/bot.js:1187), scaled down with the chain
BLOCK_RANGE == 1
\* the size above which the seen set is trimmed (1000 in src/bot.js:1464), scaled down;
\* the trim keeps half of it (500 in src/bot.js:1465)
\* (TenshisSalesBot: 500 and 250 in 970-971, 1000 and 500 in 486-487)
SEEN_LIMIT == 2
\* sockets the stream bot creates
MaxSockets == 3
\* stream messages received
MaxMessages == 2
\* Date.now() returns a value from 1 to this
MaxClock == 2
\* CONFIG.MAX_RECONNECT_ATTEMPTS (10 in src/unnamed/part_000:27), scaled down
MAX_RECONNECT_ATTEMPTS == 1
\* checkBlockchainTransfers() calls the timers start (cap on monitoringCount); all of
\* them can be in flight together
MaxChecks == 2

SEEN_KEEP == SEEN_LIMIT \div 2

---------------------------------------------------------------------------
(* Program constants *)

ZERO_ADDRESS == "0x0000000000000000000000000000000000000000"
TENSHIS_CONTRACT_ADDRESS == "0x2420DB6CF531F932ee77F4A0912A60C31251c793"
TransferSig == "Transfer(address,address,uint256)"

\* analyzePotentialSale's weights and thresholds
VALUE_WEIGHT == 30
CONTRACT_WEIGHT == 40
EVENTS_WEIGHT == 20
GAS_WEIGHT == 10
EVENTS_THRESHOLD == 1
GAS_THRESHOLD == 100000
SALE_CONFIDENCE == 50

Max(a, b) == IF a >= b THEN a ELSE b

---------------------------------------------------------------------------
(* Transfer decoder: src/bot.js 1407-1430 *)

\* A raw log is [topics |-> sequence of 32-byte words, data |-> sequence of 32-byte words,
\* blockNumber, transactionHash, logIndex].  An address word is written as the address.

Undecodable == [ok |-> FALSE]

\* ethers.AbiCoder.defaultAbiCoder().decode(['address','address','uint256'], log.data):
\* three words are read from data, fewer than three throws.  The topics are not read.
AbiDecodeTransfer(data) ==
    IF Len(data) >= 3
    THEN [ok |-> TRUE, from |-> data[1], to |-> data[2], tokenId |-> data[3]]
    ELSE Undecodable

\* the try block's first statement; a throw lands in the catch of line 1454
DecodeTransfer(log) == AbiDecodeTransfer(log.data)

\* mutant of IsMint: the mint check is missing
IsMint_Never(from) == FALSE

\* if (from === '0x0000000000000000000000000000000000000000') continue;
IsMint(from) == from = ZERO_ADDRESS

\* transferData of lines 1423-1430; tokenId.toString() is the decimal string
TransferData(log) ==
    LET d == DecodeTransfer(log)
    IN  [tokenId |-> ToString(d.tokenId), from |-> d.from, to |-> d.to,
         blockNumber |-> log.blockNumber, txHash |-> log.transactionHash,
         logIndex |-> log.logIndex]

\* generateTransferId: `${txHash}-${logIndex}`, a pair
generateTransferId(transfer) == <<transfer.txHash, transfer.logIndex>>

---------------------------------------------------------------------------
(* Sale classifier: src/bot.js 1471-1531 *)

\* A transaction context is what the three provider calls give:
\*   fetched : getTransaction and getTransactionReceipt returned (else one threw or gave null)
\*   value   : tx.value, in tenths of the native unit
\*   to      : tx.to ("" for a contract creation, where tx.to is null)
\*   code    : what getCode(tx.to) returns: "0x", "0x60" (some code) or "throw"
\*   nLogs   : receipt.logs.length
\*   gasUsed : receipt.gasUsed

\* ethers.formatEther on a value in tenths of a unit: "1.5", "1.0", "0.3"
FormatEther(v) == ToString(v \div 10) \o "." \o ToString(v % 10)

NoSale == [isSale |-> FALSE, price |-> "null", marketplace |-> "null", confidence |-> 0]

\* Factor 1: if (tx.value && tx.value > 0)
HasValue(ctx) == ctx.value > 0

\* mutant of CallsGetCode: the collection contract is not excluded
CallsGetCode_AnyDestination(ctx) == ctx.to # ""

\* Factor 2: if (tx.to && tx.to !== CONFIG.TENSHIS_CONTRACT_ADDRESS) { code = getCode(tx.to) ...
CallsGetCode(ctx) == ctx.to # "" /\ ctx.to # TENSHIS_CONTRACT_ADDRESS

IsMarketplaceCall(ctx) == CallsGetCode(ctx) /\ ctx.code # "0x"

\* mutant of AnalysisThrows: a failed fetch of the transaction or the receipt is not
\* caught, and the factors are read all the same
AnalysisThrows_IgnoresFetch(ctx) == CallsGetCode(ctx) /\ ctx.code = "throw"

\* the try block of 1472-1525 throws: getTransaction or getTransactionReceipt failed
\* (or gave null), or getCode failed
AnalysisThrows(ctx) == ~ctx.fetched \/ (CallsGetCode(ctx) /\ ctx.code = "throw")

\* mutant of Confidence: the event factor takes more than two events, as the stream
\* bot's test does
Confidence_EventsOverTwo(ctx) ==
      (IF HasValue(ctx) THEN VALUE_WEIGHT ELSE 0)
    + (IF IsMarketplaceCall(ctx) THEN CONTRACT_WEIGHT ELSE 0)
    + (IF ctx.nLogs > 2 THEN EVENTS_WEIGHT ELSE 0)
    + (IF ctx.gasUsed > GAS_THRESHOLD THEN GAS_WEIGHT ELSE 0)

\* mutant of Confidence: the gas factor is left out
Confidence_NoGasFactor(ctx) ==
      (IF HasValue(ctx) THEN VALUE_WEIGHT ELSE 0)
    + (IF IsMarketplaceCall(ctx) THEN CONTRACT_WEIGHT ELSE 0)
    + (IF ctx.nLogs > EVENTS_THRESHOLD THEN EVENTS_WEIGHT ELSE 0)

\* analysis.confidence after the four factors of 1487-1515
Confidence(ctx) ==
      (IF HasValue(ctx) THEN VALUE_WEIGHT ELSE 0)
    + (IF IsMarketplaceCall(ctx) THEN CONTRACT_WEIGHT ELSE 0)
    + (IF ctx.nLogs > EVENTS_THRESHOLD THEN EVENTS_WEIGHT ELSE 0)
    + (IF ctx.gasUsed > GAS_THRESHOLD THEN GAS_WEIGHT ELSE 0)

\* mutant of analyzePotentialSale: the catch marks the failure with a negative score
analyzePotentialSale_ErrorIsMinusOne(ctx) ==
    IF AnalysisThrows(ctx)
    THEN [NoSale EXCEPT !.confidence = -1]
    ELSE [isSale |-> Confidence(ctx) >= SALE_CONFIDENCE,
          price |-> IF HasValue(ctx) THEN FormatEther(ctx.value) \o " HYPE" ELSE "null",
          marketplace |-> IF IsMarketplaceCall(ctx) THEN ctx.to ELSE "null",
          confidence |-> Confidence(ctx)]

\* analyzePotentialSale 1471-1531: the analysis object after the four factors, or what
\* the catch of 1527 returns
analyzePotentialSale(ctx) ==
    IF AnalysisThrows(ctx)
    THEN NoSale
    ELSE [isSale |-> Confidence(ctx) >= SALE_CONFIDENCE,
          price |-> IF HasValue(ctx) THEN FormatEther(ctx.value) \o " HYPE" ELSE "null",
          marketplace |-> IF IsMarketplaceCall(ctx) THEN ctx.to ELSE "null",
          confidence |-> Confidence(ctx)]

---------------------------------------------------------------------------
(* Environment of the chain bot: the chain and its Transfer logs.  The chain is
   immutable: a block's logs and a transaction's context never change. *)

ADDR_A == "0xAAA"
ADDR_B == "0xBBB"
ADDR_C == "0xCCC"
MARKET == "0xMarket"

Log(block, tx, index, topics, data) ==
    [blockNumber |-> block, transactionHash |-> tx, logIndex |-> index,
     topics |-> topics, data |-> data]

\* what provider.getLogs can return, in chain order
ChainLogs == <<
    \* the standard ERC-721 Transfer log: three indexed arguments, no data
    Log(1, "T1", 0, <<TransferSig, ADDR_A, ADDR_B, 5>>, <<>>),
    \* logs that carry the transfer in data
    Log(2, "T2", 0, <<TransferSig>>, <<ADDR_A, ADDR_B, 1>>),
    Log(2, "T2", 1, <<TransferSig>>, <<ZERO_ADDRESS, ADDR_A, 2>>),
    Log(3, "T3", 0, <<TransferSig>>, <<ADDR_B, ADDR_C, 1>>),
    \* four topics and data that disagree
    Log(3, "T4", 0, <<TransferSig, ADDR_A, ADDR_B, 5>>, <<ADDR_C, ADDR_A, 7>>) >>

LogIds == DOMAIN ChainLogs

Ctx(value, to, code, nLogs, gasUsed) ==
    [fetched |-> TRUE, value |-> value, to |-> to, code |-> code,
     nLogs |-> nLogs, gasUsed |-> gasUsed]

\* what getTransaction / getTransactionReceipt / getCode return for a transaction
TxContext(tx) ==
    CASE tx = "T2" -> Ctx(15, MARKET, "0x60", 3, 120000)
      [] tx = "T3" -> Ctx(0, TENSHIS_CONTRACT_ADDRESS, "0x60", 1, 60000)
      [] tx = "T4" -> Ctx(0, MARKET, "0x60", 2, 90000)
      [] OTHER -> Ctx(0, TENSHIS_CONTRACT_ADDRESS, "0x60", 1, 50000)

\* the fetch failed: getTransaction or getTransactionReceipt threw
FetchFailed == [fetched |-> FALSE, value |-> 0, to |-> "", code |-> "0x",
                nLogs |-> 0, gasUsed |-> 0]

RECURSIVE LogsFrom(_, _, _)
\* the ids of the logs of blocks from..to, from id l on, in chain order
LogsFrom(l, from, to) ==
    IF l > Len(ChainLogs) THEN <<>>
    ELSE IF ChainLogs[l].blockNumber >= from /\ ChainLogs[l].blockNumber <= to
         THEN <<l>> \o LogsFrom(l + 1, from, to)
         ELSE LogsFrom(l + 1, from, to)

\* provider.getLogs({address, topics: [Transfer], fromBlock, toBlock})
GetLogs(from, to) == LogsFrom(1, from, to)

---------------------------------------------------------------------------
(* TenshisBlockchainBot: src/bot.js 1194-1683 *)

Cycles == 1..MaxChecks

\* A checkBlockchainTransfers call: where it is (pc), its locals (currentBlock,
\* fromBlock, logs, the loop index i), and four history fields: base, the cursor it
\* read for fromBlock; solo, no other call ran processTransferEvents during its own;
\* repeat, its batch is the batch of the call that finished last, with nothing between;
\* failed, the fetches of analyzePotentialSale threw for the log at i; skipped, the
\* call this record held last found no new block and returned at 1359
Idle == [pc |-> "idle", currentBlock |-> 0, fromBlock |-> 0, base |-> 0,
         logs |-> <<>>, i |-> 0, solo |-> FALSE, repeat |-> FALSE, failed |-> FALSE,
         skipped |-> FALSE]

NoScan == [from |-> 0, to |-> 0, base |-> 0, old |-> 0, new |-> 0]
NoTrim == [before |-> <<>>, after |-> <<>>]
NoFail == [from |-> 0, base |-> 0]

Range(seq) == {seq[k] : k \in DOMAIN seq}

\* Set.prototype.has
Has(seen, key) == key \in Range(seen)

\* Set.prototype.add: a key that is present keeps its place
Add(seen, key) == IF Has(seen, key) THEN seen ELSE Append(seen, key)

\* Memory management, lines 1463-1468:
\*   if (size > 1000) lastSeenTransfers = new Set(Array.from(lastSeenTransfers).slice(0, 500))
Trim(seen) == IF Len(seen) > SEEN_LIMIT THEN SubSeq(seen, 1, SEEN_KEEP) ELSE seen

\* mutant of FromBlock: the lookback bound is forgotten
FromBlock_NoLookback(last, currentBlock) == last + 1

\* const fromBlock = Math.max(this.lastProcessedBlock + 1, currentBlock - CONFIG.BLOCK_RANGE)
FromBlock(last, currentBlock) == Max(last + 1, currentBlock - BLOCK_RANGE)

KeyOf(l) == generateTransferId(TransferData(ChainLogs[l]))

\* the loop body of processTransferEvents reaches analyzePotentialSale for log l:
\* it decodes, is no mint, and its id is not in the seen set
ReachesAnalysis(l, seen) ==
    LET d == DecodeTransfer(ChainLogs[l])
    IN  d.ok /\ ~IsMint(d.from) /\ ~Has(seen, KeyOf(l))

\* mutant of NextAwait: a decode error ends the loop
NextAwait_StopsAtDecodeError(logs, i, seen) ==
    LET S == {j \in i..Len(logs) :
                ReachesAnalysis(logs[j], seen) \/ ~DecodeTransfer(ChainLogs[logs[j]]).ok}
        j == IF S = {} THEN Len(logs) + 1 ELSE CHOOSE j \in S : \A k \in S : j <= k
    IN  IF j <= Len(logs) /\ ~DecodeTransfer(ChainLogs[logs[j]]).ok
        THEN Len(logs) + 1
        ELSE j

\* the first index from i on whose log reaches analyzePotentialSale; the logs before
\* it are passed without an await (decode error, mint, already seen)
NextAwait(logs, i, seen) ==
    LET S == {j \in i..Len(logs) : ReachesAnalysis(logs[j], seen)}
    IN  IF S = {} THEN Len(logs) + 1 ELSE CHOOSE j \in S : \A k \in S : j <= k

InPass(c) == cyc[c].pc \in {"analyze", "post", "sleep"}

---------------------------------------------------------------------------
(* The actions of TenshisBlockchainBot *)

frameHarness == UNCHANGED <<variant, healthCheck, streamVars, srcVars, decVars, clsVars>>

\* a processTransferEvents call ends, and with it the try block of
\* checkBlockchainTransfers: memory management (1463-1468), then
\* this.lastProcessedBlock = currentBlock (1386)
FinishPass(c, r, seen, others) ==
    /\ lastSeenTransfers' = Trim(seen)
    /\ hTrim' = IF Trim(seen) # seen THEN [before |-> seen, after |-> Trim(seen)] ELSE hTrim
    /\ lastProcessedBlock' = r.currentBlock
    /\ hScan' = [from |-> r.fromBlock, to |-> r.currentBlock, base |-> r.base,
                 old |-> lastProcessedBlock, new |-> r.currentBlock]
    /\ hLastBatch' = IF r.solo THEN r.logs ELSE <<>>
    /\ cyc' = [others EXCEPT ![c] = Idle]

\* the for loop of processTransferEvents runs on from index i, with the seen set as
\* given, up to its next await or to the end of the function
ContinueLoop(c, r, i, seen) ==
    LET j == NextAwait(r.logs, i, seen)
    IN  IF j <= Len(r.logs)
        THEN /\ cyc' = [cyc EXCEPT ![c] = [r EXCEPT !.pc = "analyze", !.i = j,
                                                    !.failed = FALSE]]
             /\ lastSeenTransfers' = seen
             /\ UNCHANGED <<lastProcessedBlock, hTrim, hScan, hLastBatch>>
        ELSE FinishPass(c, r, seen, cyc)

\* The timers of startMonitoring (1332-1339) call checkBlockchainTransfers(), which
\* runs to its first await: monitoringCount++, then provider.getBlockNumber().
StartCheck(c) ==
    /\ cyc[c].pc = "idle"
    /\ \A d \in Cycles : d < c => cyc[d].pc # "idle"    \* the first free record
    /\ monitoringCount < MaxChecks
    /\ monitoringCount' = monitoringCount + 1
    /\ cyc' = [cyc EXCEPT ![c] = [Idle EXCEPT !.pc = "getBlockNumber"]]

\* setTimeout(() => this.checkBlockchainTransfers(), 5000)
InitialTimerFires(c) ==
    /\ variant = "chain"
    /\ initialTimer
    /\ initialTimer' = FALSE
    /\ StartCheck(c)
    /\ UNCHANGED <<chainHeight, lastProcessedBlock, lastSeenTransfers,
                   hLastBatch, hScan, hTrim>>
    /\ UNCHANGED hFail
    /\ frameHarness

\* setInterval(() => this.checkBlockchainTransfers(), CONFIG.POLLING_INTERVAL)
IntervalTimerFires(c) ==
    /\ variant = "chain"
    /\ StartCheck(c)
    /\ UNCHANGED <<chainHeight, lastProcessedBlock, lastSeenTransfers, initialTimer,
                   hLastBatch, hScan, hTrim>>
    /\ UNCHANGED hFail
    /\ frameHarness

\* mutant of GetBlockNumberReturns: the check returns only when the height is below
\* the cursor
GetBlockNumberReturns_BelowOnly(c) ==
    /\ variant = "chain"
    /\ cyc[c].pc = "getBlockNumber"
    /\ LET currentBlock == chainHeight
       IN  IF currentBlock < lastProcessedBlock
           THEN cyc' = [cyc EXCEPT ![c] = [Idle EXCEPT !.skipped = TRUE]]
           ELSE cyc' = [cyc EXCEPT ![c] =
                    [@ EXCEPT !.pc = "getLogs", !.currentBlock = currentBlock,
                              !.fromBlock = FromBlock(lastProcessedBlock, currentBlock),
                              !.base = lastProcessedBlock]]
    /\ UNCHANGED <<chainHeight, lastProcessedBlock, lastSeenTransfers, monitoringCount,
                   initialTimer, hLastBatch, hScan, hTrim>>
    /\ hFail' = IF chainHeight < lastProcessedBlock THEN hFail ELSE NoFail
    /\ frameHarness

\* await provider.getBlockNumber() returns (1354-1371): nothing new, or getLogs is called
GetBlockNumberReturns(c) ==
    /\ variant = "chain"
    /\ cyc[c].pc = "getBlockNumber"
    /\ LET currentBlock == chainHeight
       IN  IF currentBlock <= lastProcessedBlock
           THEN cyc' = [cyc EXCEPT ![c] = [Idle EXCEPT !.skipped = TRUE]]
           ELSE cyc' = [cyc EXCEPT ![c] =
                    [@ EXCEPT !.pc = "getLogs", !.currentBlock = currentBlock,
                              !.fromBlock = FromBlock(lastProcessedBlock, currentBlock),
                              !.base = lastProcessedBlock]]
    /\ UNCHANGED <<chainHeight, lastProcessedBlock, lastSeenTransfers, monitoringCount,
                   initialTimer, hLastBatch, hScan, hTrim>>
    /\ hFail' = IF chainHeight <= lastProcessedBlock THEN hFail ELSE NoFail
    /\ frameHarness

\* await provider.getBlockNumber() or await provider.getLogs() throws: the catch of
\* 1389 awaits sendErrorNotification
ProviderCallFails(c) ==
    /\ variant = "chain"
    /\ cyc[c].pc \in {"getBlockNumber", "getLogs"}
    /\ cyc' = [cyc EXCEPT ![c] = [@ EXCEPT !.pc = "errorNotify"]]
    /\ UNCHANGED <<chainHeight, lastProcessedBlock, lastSeenTransfers, monitoringCount,
                   initialTimer, hLastBatch, hScan, hTrim>>
    /\ hFail' = IF cyc[c].pc = "getLogs"
                THEN [from |-> cyc[c].fromBlock, base |-> cyc[c].base]
                ELSE hFail
    /\ frameHarness

\* mutant of ErrorNotificationReturns: the failed check writes the cursor all the same
ErrorNotificationReturns_WritesCursor(c) ==
    /\ variant = "chain"
    /\ cyc[c].pc = "errorNotify"
    /\ cyc' = [cyc EXCEPT ![c] = Idle]
    /\ lastProcessedBlock' = Max(lastProcessedBlock, cyc[c].currentBlock)
    /\ UNCHANGED <<chainHeight, lastSeenTransfers, monitoringCount,
                   initialTimer, hLastBatch, hScan, hTrim>>
    /\ UNCHANGED hFail
    /\ frameHarness

\* sendErrorNotification returns (it catches its own errors): the check is over
ErrorNotificationReturns(c) ==
    /\ variant = "chain"
    /\ cyc[c].pc = "errorNotify"
    /\ cyc' = [cyc EXCEPT ![c] = Idle]
    /\ UNCHANGED <<chainHeight, lastProcessedBlock, lastSeenTransfers, monitoringCount,
                   initialTimer, hLastBatch, hScan, hTrim>>
    /\ UNCHANGED hFail
    /\ frameHarness

\* await provider.getLogs() returns (1371-1386).  No logs: the cursor is written.
\* Some logs: processTransferEvents starts and runs to its first await.
GetLogsReturns(c) ==
    /\ variant = "chain"
    /\ cyc[c].pc = "getLogs"
    /\ LET logs == GetLogs(cyc[c].fromBlock, cyc[c].currentBlock)
           solo == \A d \in Cycles \ {c} : ~InPass(d)
           r == [cyc[c] EXCEPT !.logs = logs, !.solo = solo,
                               !.repeat = solo /\ logs = hLastBatch]
           \* history: the calls in processTransferEvents now share it with this one
           others == [d \in Cycles |->
                        IF d # c /\ InPass(d)
                        THEN [cyc[d] EXCEPT !.solo = FALSE, !.repeat = FALSE]
                        ELSE cyc[d]]
       IN  IF Len(logs) = 0
           THEN /\ lastProcessedBlock' = r.currentBlock
                /\ hScan' = [from |-> r.fromBlock, to |-> r.currentBlock, base |-> r.base,
                             old |-> lastProcessedBlock, new |-> r.currentBlock]
                /\ cyc' = [cyc EXCEPT ![c] = Idle]
                /\ UNCHANGED <<lastSeenTransfers, hTrim, hLastBatch>>
           ELSE LET j == NextAwait(logs, 1, lastSeenTransfers)
                IN  IF j <= Len(logs)
                    THEN /\ cyc' = [others EXCEPT ![c] = [r EXCEPT !.pc = "analyze", !.i = j]]
                         /\ UNCHANGED <<lastProcessedBlock, lastSeenTransfers, hTrim,
                                        hScan, hLastBatch>>
                    ELSE FinishPass(c, r, lastSeenTransfers, others)
    /\ UNCHANGED <<chainHeight, monitoringCount, initialTimer>>
    /\ UNCHANGED hFail
    /\ frameHarness

\* await analyzePotentialSale(transferData) returns (1438-1451).  A sale: postSaleToDiscord
\* is called.  No sale: the id is added and the 500 ms delay starts.
AnalysisReturns(c, fetched) ==
    /\ variant = "chain"
    /\ cyc[c].pc = "analyze"
    /\ LET r == cyc[c]
           log == ChainLogs[r.logs[r.i]]
           \* a failed fetch leaves what the transaction holds as it is
           ctx == [TxContext(log.transactionHash) EXCEPT !.fetched = fetched]
           saleInfo == analyzePotentialSale(ctx)
       IN  IF saleInfo.isSale
           THEN /\ cyc' = [cyc EXCEPT ![c] = [r EXCEPT !.pc = "post", !.failed = ~fetched]]
                /\ UNCHANGED lastSeenTransfers
           ELSE /\ cyc' = [cyc EXCEPT ![c] = [r EXCEPT !.pc = "sleep", !.failed = ~fetched]]
                /\ lastSeenTransfers' = Add(lastSeenTransfers, KeyOf(r.logs[r.i]))
    /\ UNCHANGED <<chainHeight, lastProcessedBlock, monitoringCount, initialTimer,
                   hLastBatch, hScan, hTrim>>
    /\ UNCHANGED hFail
    /\ frameHarness

\* await postSaleToDiscord() returns (1443-1451): the id is added, the delay starts
PostReturns(c) ==
    /\ variant = "chain"
    /\ cyc[c].pc = "post"
    /\ cyc' = [cyc EXCEPT ![c] = [@ EXCEPT !.pc = "sleep"]]
    /\ lastSeenTransfers' = Add(lastSeenTransfers, KeyOf(cyc[c].logs[cyc[c].i]))
    /\ UNCHANGED <<chainHeight, lastProcessedBlock, monitoringCount, initialTimer,
                   hLastBatch, hScan, hTrim>>
    /\ UNCHANGED hFail
    /\ frameHarness

\* mutant of PostThrows: the loop body has no catch; what postSaleToDiscord throws
\* reaches the catch of checkBlockchainTransfers (1389)
PostThrows_Propagates(c) ==
    /\ variant = "chain"
    /\ cyc[c].pc = "post"
    /\ cyc' = [cyc EXCEPT ![c] = [@ EXCEPT !.pc = "errorNotify"]]
    /\ UNCHANGED <<chainHeight, lastProcessedBlock, lastSeenTransfers, monitoringCount,
                   initialTimer, hLastBatch, hScan, hTrim>>
    /\ UNCHANGED hFail
    /\ frameHarness

\* await postSaleToDiscord() throws: the catch of 1454 logs it, the loop goes on with
\* the next log; the id was not added
PostThrows(c) ==
    /\ variant = "chain"
    /\ cyc[c].pc = "post"
    /\ ContinueLoop(c, cyc[c], cyc[c].i + 1, lastSeenTransfers)
    /\ UNCHANGED <<chainHeight, monitoringCount, initialTimer>>
    /\ UNCHANGED hFail
    /\ frameHarness

\* the 500 ms delay of 1451 is over: the loop goes on with the next log
DelayReturns(c) ==
    /\ variant = "chain"
    /\ cyc[c].pc = "sleep"
    /\ ContinueLoop(c, cyc[c], cyc[c].i + 1, lastSeenTransfers)
    /\ UNCHANGED <<chainHeight, monitoringCount, initialTimer>>
    /\ UNCHANGED hFail
    /\ frameHarness

\* environment: the chain produces a block
BlockProduced ==
    /\ variant \in {"chain", "hybrid"}
    /\ chainHeight < MaxHeight
    /\ chainHeight' = chainHeight + 1
    /\ UNCHANGED <<lastProcessedBlock, lastSeenTransfers, monitoringCount, initialTimer,
                   cyc, hLastBatch, hScan, hTrim>>
    /\ UNCHANGED hFail
    /\ frameHarness

---------------------------------------------------------------------------
(* EfficientTenshisBot: src/unnamed/part_000 30-571.  The stream messages it handles,
   its socket and timer callbacks. *)

COLLECTION_NAME == "tenshis"
OTHER_CONTRACT == "0xOther"
RECONNECT_DELAY == 5000

Handlers == 1..MaxMessages

\* the values Date.now() can return
Clock == 1..MaxClock

Message(channel, collection, contract, event, from, timestamp) ==
    [channel |-> channel, collection |-> collection, contract |-> contract,
     event |-> event, tokenId |-> 1, price |-> "1.5 HYPE", timestamp |-> timestamp,
     from |-> from, to |-> ADDR_B, txHash |-> "T2"]

\* messages of channel nftSales; timestamp 0 stands for a message without one
SaleMessages ==
    {Message("nftSales", k[1], k[2], "ItemSold", ADDR_A, t) :
        k \in {<<COLLECTION_NAME, TENSHIS_CONTRACT_ADDRESS>>, <<"other", OTHER_CONTRACT>>},
        t \in {0, 100}}

\* messages of channel nftCollection
CollectionMessages ==
    {Message("nftCollection", COLLECTION_NAME, k, e[1], e[2], 0) :
        k \in {TENSHIS_CONTRACT_ADDRESS, OTHER_CONTRACT},
        e \in {<<"Transfer", ZERO_ADDRESS>>, <<"Transfer", ADDR_A>>, <<"Sale", ADDR_A>>}}

\* a subscription confirmation, or anything else handleWebSocketMessage only logs
OtherMessages == {Message("subscription", "", "", "", "", 0)}

StreamMessages == SaleMessages \cup CollectionMessages \cup OtherMessages

\* counter is this.salesCount as the footer of the embed read it (406-409)
NoHandler == [pc |-> "idle", kind |-> "", ev |-> Message("", "", "", "", "", 0),
              saleId |-> <<>>, counter |-> 0]

\* Date.now() is read for a sale record without a timestamp only (563-565), and only
\* handleSaleEvent computes a key (242)
ClockRead(m) == IF m.channel = "nftSales" /\ m.timestamp = 0 THEN Clock ELSE {1}

\* generateSaleId: `${sale.tokenId}-${sale.price}-${sale.timestamp || Date.now()}`
generateSaleId(sale, clock) ==
    <<sale.tokenId, sale.price, IF sale.timestamp # 0 THEN sale.timestamp ELSE clock>>

\* handleSaleEvent 237-240: the event is dropped unless it names the collection or
\* the contract
IsTenshisSale(saleData) ==
    ~(saleData.collection # COLLECTION_NAME /\ saleData.contract # TENSHIS_CONTRACT_ADDRESS)

\* handleCollectionEvent 266:
\*   eventData.event === 'Transfer' && eventData.from !== '0x0000000000000000000000000000000000000000'
IsHolderTransfer(eventData) ==
    eventData.event = "Transfer" /\ eventData.from # ZERO_ADDRESS

\* what the transaction lookup of analyzePotentialSale (285-295) can return
StreamTxs == [fetched : {TRUE}, value : {0, 15}, nLogs : {1, 3}]
            \cup {[fetched |-> FALSE, value |-> 0, nLogs |-> 0]}

\* const isSale = tx.value > 0 || tx.logs.length > 2; the catch gives isSale: false
StreamIsSale(tx) == tx.fetched /\ (tx.value > 0 \/ tx.nLogs > 2)

\* delay = CONFIG.RECONNECT_DELAY * Math.pow(2, this.wsReconnectAttempts - 1)
ReconnectDelay(attempt) == RECONNECT_DELAY * 2 ^ (attempt - 1)

RemoveAt(seq, k) == SubSeq(seq, 1, k - 1) \o SubSeq(seq, k + 1, Len(seq))

\* The sockets are kept in the order connectWebSocket created them: this.ws is the
\* last one.  The handlers of 132-158 are the same closures on every socket.
SetStatus(seq, s, st) == [seq EXCEPT ![s] = st]

frameStream == UNCHANGED <<variant, healthCheck, chainVars, srcVars, decVars, clsVars>>

hReconnect == <<hDelays, hFailures, hCapAt>>

\* mutant of ScheduleReconnect: the attempt cap is not tested
ScheduleReconnect_NoCap ==
    /\ wsReconnectAttempts' = wsReconnectAttempts + 1
    /\ reconnTimers' = Append(reconnTimers, ReconnectDelay(wsReconnectAttempts + 1))
    /\ hDelays' = Append(hDelays, ReconnectDelay(wsReconnectAttempts + 1))
    /\ UNCHANGED <<pollers, hCapAt>>

\* scheduleReconnect 414-429; fallbackToPolling 431-440 installs a polling interval
ScheduleReconnect ==
    IF wsReconnectAttempts >= MAX_RECONNECT_ATTEMPTS
    THEN /\ pollers' = pollers + 1
         /\ hCapAt' = IF hCapAt = 0 THEN Len(socks) ELSE hCapAt
         /\ UNCHANGED <<wsReconnectAttempts, reconnTimers, hDelays>>
    ELSE /\ wsReconnectAttempts' = wsReconnectAttempts + 1
         /\ reconnTimers' = Append(reconnTimers, ReconnectDelay(wsReconnectAttempts + 1))
         /\ hDelays' = Append(hDelays, ReconnectDelay(wsReconnectAttempts + 1))
         /\ UNCHANGED <<pollers, hCapAt>>

\* ws.on('open') 132-142
SocketOpens(s) ==
    /\ variant = "stream"
    /\ socks[s] = "connecting"
    /\ socks' = SetStatus(socks, s, "open")
    /\ isConnected' = TRUE
    /\ wsReconnectAttempts' = 0
    /\ UNCHANGED <<connTimeouts, reconnTimers, pollers, lastSeenSales, salesCount, hnd,
                   messages>>
    /\ hDelays' = <<>>
    /\ hFailures' = 0
    /\ UNCHANGED hCapAt
    /\ UNCHANGED hSent
    /\ frameStream

\* ws.on('error') 154-158; the socket emits 'close' after it
SocketErrors(s) ==
    /\ variant = "stream"
    /\ socks[s] \in {"connecting", "open"}
    /\ socks' = SetStatus(socks, s, "errored")
    /\ isConnected' = FALSE
    /\ ScheduleReconnect
    /\ UNCHANGED <<connTimeouts, lastSeenSales, salesCount, hnd, messages>>
    /\ hFailures' = hFailures + 1
    /\ UNCHANGED hSent
    /\ frameStream

\* ws.on('close') 148-152: an open socket is closed, or a failed one closes
SocketCloses(s) ==
    /\ variant = "stream"
    /\ socks[s] \in {"open", "errored"}
    /\ socks' = SetStatus(socks, s, "closed")
    /\ isConnected' = FALSE
    /\ ScheduleReconnect
    /\ UNCHANGED <<connTimeouts, lastSeenSales, salesCount, hnd, messages>>
    /\ hFailures' = IF socks[s] = "open" THEN hFailures + 1 ELSE hFailures
    /\ UNCHANGED hSent
    /\ frameStream

\* the connection timeout of 161-166
ConnectionTimeoutFires ==
    /\ variant = "stream"
    /\ connTimeouts > 0
    /\ connTimeouts' = connTimeouts - 1
    /\ pollers' = IF ~isConnected THEN pollers + 1 ELSE pollers
    /\ UNCHANGED <<socks, reconnTimers, wsReconnectAttempts, isConnected, lastSeenSales,
                   salesCount, hnd, messages>>
    /\ UNCHANGED hReconnect
    /\ UNCHANGED hSent
    /\ frameStream

\* a reconnect timer of 426-428 fires: connectWebSocket 126-166 creates a socket and
\* sets its connection timeout
ReconnectTimerFires(k) ==
    /\ variant = "stream"
    /\ k \in DOMAIN reconnTimers
    /\ Len(socks) < MaxSockets
    /\ reconnTimers' = RemoveAt(reconnTimers, k)
    /\ socks' = Append(socks, "connecting")
    /\ connTimeouts' = connTimeouts + 1
    /\ UNCHANGED <<pollers, wsReconnectAttempts, isConnected, lastSeenSales, salesCount,
                   hnd, messages>>
    /\ UNCHANGED hReconnect
    /\ UNCHANGED hSent
    /\ frameStream

\* ws.on('message') 144-146, handleWebSocketMessage 214-232, and the handler it calls,
\* up to the handler's first await
MessageArrives(s, h, m, clock) ==
    /\ variant = "stream"
    /\ socks[s] = "open"
    /\ messages < MaxMessages
    /\ messages' = messages + 1
    /\ hnd[h].pc = "idle"
    /\ \A g \in Handlers : g < h => hnd[g].pc # "idle"    \* the first free record
    /\ LET saleId == generateSaleId(m, clock)
       IN  hnd' =
             IF /\ m.channel = "nftSales"
                /\ IsTenshisSale(m)
                /\ saleId \notin lastSeenSales
             THEN \* handleSaleEvent 234-251: await this.processSale(saleData)
                  [hnd EXCEPT ![h] = [NoHandler EXCEPT !.pc = "process", !.kind = "sale",
                                                       !.ev = m, !.saleId = saleId]]
             ELSE IF /\ m.channel = "nftCollection"
                     /\ m.contract = TENSHIS_CONTRACT_ADDRESS
                     /\ IsHolderTransfer(m)
             THEN \* handleCollectionEvent 260-270: await this.analyzePotentialSale(eventData)
                  [hnd EXCEPT ![h] = [NoHandler EXCEPT !.pc = "analyze",
                                                       !.kind = "collection", !.ev = m]]
             ELSE hnd
    /\ UNCHANGED <<socks, connTimeouts, reconnTimers, pollers, wsReconnectAttempts,
                   isConnected, lastSeenSales, salesCount>>
    /\ UNCHANGED hReconnect
    /\ UNCHANGED hSent
    /\ frameStream

\* await analyzePotentialSale returns to handleCollectionEvent 270-275: a sale goes to
\* processSale
StreamAnalysisReturns(h, tx) ==
    /\ variant = "stream"
    /\ hnd[h].pc = "analyze"
    /\ hnd' = IF StreamIsSale(tx)
              THEN [hnd EXCEPT ![h] = [@ EXCEPT !.pc = "process"]]
              ELSE [hnd EXCEPT ![h] = NoHandler]
    /\ UNCHANGED <<socks, connTimeouts, reconnTimers, pollers, wsReconnectAttempts,
                   isConnected, lastSeenSales, salesCount, messages>>
    /\ UNCHANGED hReconnect
    /\ UNCHANGED hSent
    /\ frameStream

\* processSale returns to its caller: handleSaleEvent 252-253 adds the id and counts
\* the sale, handleCollectionEvent does nothing more
HandlerEnds(h) ==
    /\ hnd' = [hnd EXCEPT ![h] = NoHandler]
    /\ IF hnd[h].kind = "sale"
       THEN /\ lastSeenSales' = lastSeenSales \cup {hnd[h].saleId}
            /\ salesCount' = salesCount + 1
       ELSE UNCHANGED <<lastSeenSales, salesCount>>

\* processSale 313-321 and postSaleToDiscord 351-409: enrichSaleData returned (it
\* catches its errors) and channels.fetch returned; the embed is built and
\* channel.send is awaited
ChannelFetched(h) ==
    /\ variant = "stream"
    /\ hnd[h].pc = "process"
    /\ hnd' = [hnd EXCEPT ![h] = [@ EXCEPT !.pc = "send", !.counter = salesCount]]
    /\ UNCHANGED <<socks, connTimeouts, reconnTimers, pollers, wsReconnectAttempts,
                   isConnected, lastSeenSales, salesCount, messages>>
    /\ UNCHANGED hReconnect
    /\ UNCHANGED hSent
    /\ frameStream

\* channels.fetch throws: the catch of processSale 326 logs it and processSale returns
ChannelFetchThrows(h) ==
    /\ variant = "stream"
    /\ hnd[h].pc = "process"
    /\ HandlerEnds(h)
    /\ UNCHANGED <<socks, connTimeouts, reconnTimers, pollers, wsReconnectAttempts,
                   isConnected, messages>>
    /\ UNCHANGED hReconnect
    /\ UNCHANGED hSent
    /\ frameStream

\* the notification channel.send delivers for the call of handler h
Notification(h) ==
    [kind |-> hnd[h].kind, tokenId |-> hnd[h].ev.tokenId, saleId |-> hnd[h].saleId,
     counter |-> hnd[h].counter]

\* channel.send returns (delivered) or throws (the catch of processSale 326):
\* processSale returns
SendEnds(h, delivered) ==
    /\ variant = "stream"
    /\ hnd[h].pc = "send"
    /\ HandlerEnds(h)
    /\ hSent' = IF delivered THEN Append(hSent, Notification(h)) ELSE hSent
    /\ UNCHANGED <<socks, connTimeouts, reconnTimers, pollers, wsReconnectAttempts,
                   isConnected, messages>>
    /\ UNCHANGED hReconnect
    /\ frameStream

---------------------------------------------------------------------------
(* Secondary source adapter of the two TenshisSalesBot variants: the API-polling bot
   (src/bot.js 670-1108) and the hybrid bot (src/bot.js 37-587).  The records the
   marketplace returns and the pure functions both bots apply to them. *)

\* A marketplace record, with each value under a field name both bots accept:
\*   tokenId   : item.tokenId, "" when the record has none
\*   price     : item.price as a sequence of words, <<>> when the record has none;
\*               <<"1.5">> is the string "1.5" (or the number 1.5), <<"1.5", "HYPE">>
\*               is "1.5 HYPE"
\*   timestamp : item.timestamp, 0 when the record has none
\*   txHash    : item.txHash, "" when the record has none
Item(tokenId, price, timestamp, txHash) ==
    [tokenId |-> tokenId, price |-> price, timestamp |-> timestamp, txHash |-> txHash]

CompleteItem == Item("7", <<"1.5">>, 100, "T2")
NoTimestampItem == Item("7", <<"1.5">>, 0, "T2")
NoPriceItem == Item("7", <<>>, 100, "")
NoTokenItem == Item("", <<"1.5", "HYPE">>, 100, "")
EthItem == Item("9", <<"2", "ETH">>, 200, "T9")

Includes(words, unit) == \E k \in DOMAIN words : words[k] = unit

\* String.prototype.toLowerCase on a word
LowerWord(w) ==
    CASE w = "HYPE" -> "hype" [] w = "ETH" -> "eth" [] w = "Unknown" -> "unknown"
      [] OTHER -> w

ToLowerCase(words) == [k \in DOMAIN words |-> LowerWord(words[k])]

\* formatPrice of the API-polling bot, 977-991
ApiFormatPrice(price) ==
    IF price = <<>> THEN <<"Unknown">>
    ELSE IF Includes(price, "HYPE") THEN price
    ELSE IF Includes(price, "ETH") THEN price
    ELSE price \o <<"HYPE">>

\* formatPrice of the hybrid bot, 492-500
HybridFormatPrice(price) ==
    IF price = <<>> THEN <<"Unknown">>
    ELSE IF Includes(price, "HYPE") THEN price
    ELSE price \o <<"HYPE">>

\* a sale record as the bots build it; raw is a history field, the record it was
\* built from
Sale(tokenId, price, timestamp, txHash, source, raw) ==
    [tokenId |-> tokenId, price |-> price, timestamp |-> timestamp, txHash |-> txHash,
     source |-> source, raw |-> raw]

\* the map of processSalesData 927-935 on one item; clock is what Date.now() returns
ApiMapItem(item, source, clock) ==
    Sale(item.tokenId, ApiFormatPrice(item.price),
         IF item.timestamp # 0 THEN item.timestamp ELSE clock, item.txHash, source, item)

\* the filter of processSalesData 935:
\*   sale => sale.tokenId && sale.price && sale.price !== 'Unknown'
ApiKeepsSale(sale) == sale.tokenId # "" /\ sale.price # <<>> /\ sale.price # <<"Unknown">>

\* const sales = rawData.map(...).filter(...) of processSalesData 927-935
ApiValidSales(rawData, source, clock) ==
    SelectSeq([k \in DOMAIN rawData |-> ApiMapItem(rawData[k], source, clock)],
                ApiKeepsSale)

\* the map of parseAPIResponse 424-432 on one item
HybridMapItem(item, clock) ==
    Sale(item.tokenId, HybridFormatPrice(item.price),
         IF item.timestamp # 0 THEN item.timestamp ELSE clock, item.txHash, "api", item)

\* the filter of parseAPIResponse 432: sale => sale.tokenId && sale.price
HybridKeepsSale(sale) == sale.tokenId # "" /\ sale.price # <<>>

\* parseAPIResponse 423-433
parseAPIResponse(data, clock) ==
    SelectSeq([k \in DOMAIN data |-> HybridMapItem(data[k], clock)], HybridKeepsSale)

\* the test of extractSalesFromData (438-442, 902-904) on one element of the page's
\* array: it carries a token id and a price
IsSaleLike(item) == item.tokenId # "" /\ item.price # <<>>

\* the elements extractSalesFromData (435-458, 895-922) finds in the page's array
extractSalesFromData(data) == SelectSeq(data, IsSaleLike)

\* the hybrid bot passes a scraped record on as it is (410-412, 349): it has no source
ScrapedSale(item) ==
    Sale(item.tokenId, item.price, item.timestamp, item.txHash, "", item)

\* generateSaleId of the API-polling bot, 993-995:
\*   `${sale.tokenId}-${sale.price}-${sale.timestamp}`.toLowerCase()
ApiGenerateSaleId(sale) == <<sale.tokenId, ToLowerCase(sale.price), sale.timestamp>>

\* generateSaleId of the hybrid bot, 502-504:
\*   `${sale.tokenId}-${sale.price}-${sale.timestamp || Date.now()}`
HybridGenerateSaleId(sale, clock) ==
    <<sale.tokenId, sale.price, IF sale.timestamp # 0 THEN sale.timestamp ELSE clock>>

---------------------------------------------------------------------------
(* Environment of the secondary-source bots: what the marketplace answers *)

\* an HTTP request throws (network error, timeout, HTTP error status)
RequestFails == [kind |-> "fail", data |-> <<>>]
\* the body is JSON but no array
NotAnArray == [kind |-> "object", data |-> <<>>]
ArrayResponse(data) == [kind |-> "array", data |-> data]
\* the page has none of the known patterns, or none that parses
NoPattern == [kind |-> "nomatch", data |-> <<>>]

ApiArrays ==
    {<<>>, <<CompleteItem>>, <<NoTimestampItem>>, <<NoPriceItem>>, <<NoTokenItem>>,
     <<EthItem>>, <<NoPriceItem, CompleteItem>>}

\* what axios.get on an API path can give
ApiResponses == {RequestFails, NotAnArray} \cup {ArrayResponse(d) : d \in ApiArrays}

\* What axios.get on the collection page can give: the request throws, no pattern
\* matches, or the first pattern that yields anything holds this array.
PageResponses == {RequestFails, NoPattern} \cup {ArrayResponse(d) : d \in ApiArrays}

\* the answers the hybrid bot is given
HybridArrays == {<<>>, <<CompleteItem>>, <<NoPriceItem>>, <<NoTokenItem>>}

HybridApiResponses == {RequestFails, NotAnArray} \cup {ArrayResponse(d) : d \in HybridArrays}

HybridPageResponses ==
    {RequestFails, NoPattern, ArrayResponse(<<NoTimestampItem>>)}

\* the API paths of checkDripAPI (808-813) and of tryDripAPI (362-366)
API_ENDPOINTS == 4
HYBRID_ENDPOINTS == 3

Checks == 1..MaxChecks

\* A monitoring check: where it is (pc), its locals (the index of the API path it
\* queries, the sales it processes and their source, the loop index i, the saleId of
\* the sale being posted; for the hybrid bot currentBlock, fromBlock and the logs),
\* and two history fields: yielded, an API path has given this check records; prior,
\* the records notified before this check started
NoCheck == [pc |-> "idle", endpoint |-> 0, source |-> "", sales |-> <<>>, i |-> 0,
            saleId |-> <<>>, currentBlock |-> 0, fromBlock |-> 0, logs |-> <<>>,
            yielded |-> FALSE, prior |-> {}]

\* a notification that was delivered: the sale, and the record it was built from
Posted(sale) == [tokenId |-> sale.tokenId, price |-> sale.price, txHash |-> sale.txHash,
                 source |-> sale.source, raw |-> sale.raw]

NotifiedRecords == {p.raw : p \in hPosted}

FirstFree(c) == chk[c].pc = "idle" /\ \A d \in Checks : d < c => chk[d].pc # "idle"

frameSource == UNCHANGED <<variant, healthCheck, chainVars, streamVars, decVars, clsVars>>

---------------------------------------------------------------------------
(* The API-polling TenshisSalesBot: src/bot.js 670-1108 *)

\* the first index from i on whose sale is not in the seen set (941-944)
ApiNextNew(sales, i, seen) ==
    LET S == {j \in i..Len(sales) : ~Has(seen, ApiGenerateSaleId(sales[j]))}
    IN  IF S = {} THEN Len(sales) + 1 ELSE CHOOSE j \in S : \A k \in S : j <= k

\* The for loop of processSalesData (941-961) runs on from index i up to its next
\* await.  At its end: memory management (969-974); then checkDripAPI returns (832)
\* and performMonitoringCheck calls checkCollectionPage (789), or checkCollectionPage
\* returns (880) and the check is over.
ApiLoop(c, r, i) ==
    LET j == ApiNextNew(r.sales, i, seenSales)
    IN  IF j <= Len(r.sales)
        THEN /\ chk' = [chk EXCEPT ![c] = [r EXCEPT !.pc = "post", !.i = j,
                                                     !.saleId = ApiGenerateSaleId(r.sales[j])]]
             /\ UNCHANGED seenSales
        ELSE /\ seenSales' = Trim(seenSales)
             /\ chk' = [chk EXCEPT ![c] =
                          IF r.source = "api"
                          THEN [r EXCEPT !.pc = "page", !.sales = <<>>, !.i = 0,
                                         !.saleId = <<>>]
                          ELSE NoCheck]

\* The timers of startMonitoring (763-770) call performMonitoringCheck(), which runs
\* to its first await: monitoringCount++, checkDripAPI requests the first path.
ApiCheckStarts(c) ==
    /\ variant = "api"
    /\ FirstFree(c)
    /\ checksStarted < MaxChecks
    /\ checksStarted' = checksStarted + 1
    /\ chk' = [chk EXCEPT ![c] = [NoCheck EXCEPT !.pc = "api", !.endpoint = 1,
                                                  !.prior = NotifiedRecords]]
    /\ UNCHANGED <<now, marketplaceContract, seenSales, hPosted>>
    /\ frameSource

\* await axios.get(endpoint) of checkDripAPI returns or throws (816-839).  A non-empty
\* array goes to processSalesData and no other path is tried; anything else, and the
\* next path is requested; after the last path checkCollectionPage requests the page.
ApiEndpointResponds(c, resp) ==
    /\ variant = "api"
    /\ chk[c].pc = "api"
    /\ IF resp.kind = "array" /\ Len(resp.data) > 0
       THEN ApiLoop(c, [chk[c] EXCEPT !.source = "api", !.yielded = TRUE,
                                      !.sales = ApiValidSales(resp.data, "api", now)], 1)
       ELSE /\ chk' = [chk EXCEPT ![c] =
                         IF chk[c].endpoint < API_ENDPOINTS
                         THEN [@ EXCEPT !.endpoint = @ + 1]
                         ELSE [@ EXCEPT !.pc = "page"]]
            /\ UNCHANGED seenSales
    /\ UNCHANGED <<now, marketplaceContract, checksStarted, hPosted>>
    /\ frameSource

\* mutant of ApiPageResponds: checkCollectionPage does not catch what axios.get throws;
\* the catch of performMonitoringCheck (793) gets it and awaits sendErrorNotification
ApiPageResponds_Rethrows(c, page) ==
    /\ variant = "api"
    /\ chk[c].pc = "page"
    /\ IF page.kind = "array" /\ Len(extractSalesFromData(page.data)) > 0
       THEN ApiLoop(c, [chk[c] EXCEPT !.source = "scraping",
                           !.sales = ApiValidSales(extractSalesFromData(page.data),
                                                   "scraping", now)], 1)
       ELSE /\ chk' = [chk EXCEPT ![c] =
                         IF page.kind = "fail" THEN [@ EXCEPT !.pc = "errorNotify"]
                         ELSE NoCheck]
            /\ UNCHANGED seenSales
    /\ UNCHANGED <<now, marketplaceContract, checksStarted, hPosted>>
    /\ frameSource

\* await axios.get(page) of checkCollectionPage returns or throws (848-892)
ApiPageResponds(c, page) ==
    /\ variant = "api"
    /\ chk[c].pc = "page"
    /\ IF page.kind = "array" /\ Len(extractSalesFromData(page.data)) > 0
       THEN ApiLoop(c, [chk[c] EXCEPT !.source = "scraping",
                           !.sales = ApiValidSales(extractSalesFromData(page.data),
                                                   "scraping", now)], 1)
       ELSE /\ chk' = [chk EXCEPT ![c] = NoCheck]
            /\ UNCHANGED seenSales
    /\ UNCHANGED <<now, marketplaceContract, checksStarted, hPosted>>
    /\ frameSource

\* await postSaleToDiscord(sale) returns (948-953): the id is added, the 1 s delay starts
ApiPostReturns(c) ==
    /\ variant = "api"
    /\ chk[c].pc = "post"
    /\ seenSales' = Add(seenSales, chk[c].saleId)
    /\ hPosted' = hPosted \cup {Posted(chk[c].sales[chk[c].i])}
    /\ chk' = [chk EXCEPT ![c] = [@ EXCEPT !.pc = "sleep"]]
    /\ UNCHANGED <<now, marketplaceContract, checksStarted>>
    /\ frameSource

\* await postSaleToDiscord(sale) throws: the catch of 955 logs it and the loop goes on
ApiPostThrows(c) ==
    /\ variant = "api"
    /\ chk[c].pc = "post"
    /\ ApiLoop(c, chk[c], chk[c].i + 1)
    /\ UNCHANGED <<now, marketplaceContract, checksStarted, hPosted>>
    /\ frameSource

\* the delay of 953 is over
ApiDelayReturns(c) ==
    /\ variant = "api"
    /\ chk[c].pc = "sleep"
    /\ ApiLoop(c, chk[c], chk[c].i + 1)
    /\ UNCHANGED <<now, marketplaceContract, checksStarted, hPosted>>
    /\ frameSource

\* environment: time passes
ClockTicks ==
    /\ variant \in {"api", "hybrid"}
    /\ now < MaxClock
    /\ now' = now + 1
    /\ UNCHANGED <<marketplaceContract, seenSales, checksStarted, chk, hPosted>>
    /\ frameSource

---------------------------------------------------------------------------
(* The hybrid TenshisSalesBot: src/bot.js 37-587 *)

\* a log of the marketplace contract: parsed, parseLog gives its arguments (else it
\* gives null or throws); args[0] the NFT contract, args[1] the token id, args[4] the
\* price in tenths of the native unit
MarketLog(block, tx, parsed, nftContract, tokenId, price) ==
    [blockNumber |-> block, transactionHash |-> tx, parsed |-> parsed,
     nftContract |-> nftContract, tokenId |-> tokenId, price |-> price]

\* what provider.getLogs({address: DRIP_MARKETPLACE_ADDRESS, ...}) can return: the
\* sale the marketplace API reports as CompleteItem, a sale of another collection,
\* and a log of another event
MarketLogs == <<
    MarketLog(1, "T2", TRUE, TENSHIS_CONTRACT_ADDRESS, "7", 15),
    MarketLog(2, "T8", TRUE, OTHER_CONTRACT, "3", 10),
    MarketLog(3, "T9", FALSE, "", "", 0) >>

RECURSIVE MarketLogsFrom(_, _, _)
MarketLogsFrom(l, from, to) ==
    IF l > Len(MarketLogs) THEN <<>>
    ELSE IF MarketLogs[l].blockNumber >= from /\ MarketLogs[l].blockNumber <= to
         THEN <<l>> \o MarketLogsFrom(l + 1, from, to)
         ELSE MarketLogsFrom(l + 1, from, to)

\* saleData of processBlockchainSale 313-321: no timestamp
ChainSale(log) ==
    Sale(log.tokenId, <<FormatEther(log.price), "HYPE">>, 0, log.transactionHash,
         "blockchain", log)

\* processBlockchainSale reaches generateSaleId for the log (305-312)
IsTenshisMarketLog(log) == log.parsed /\ log.nftContract = TENSHIS_CONTRACT_ADDRESS

frameHybrid ==
    UNCHANGED <<variant, healthCheck,
                chainHeight, lastSeenTransfers, monitoringCount, initialTimer,
                cyc, hLastBatch, hScan, hTrim, hFail, streamVars, decVars, clsVars>>

\* checkAPISales starts (338-347): tryDripAPI requests its first path
StartApiSales(r) == [r EXCEPT !.pc = "api", !.endpoint = 1, !.logs = <<>>, !.i = 0,
                              !.saleId = <<>>]

\* the first index from i on whose log processBlockchainSale posts: a parsed Tenshis
\* sale whose id, made with the clock as it is, is not in the seen set (305-325)
ChainNextNew(logs, i, seen, clock) ==
    LET S == {j \in i..Len(logs) :
                /\ IsTenshisMarketLog(MarketLogs[logs[j]])
                /\ ~Has(seen, HybridGenerateSaleId(ChainSale(MarketLogs[logs[j]]), clock))}
    IN  IF S = {} THEN Len(logs) + 1 ELSE CHOOSE j \in S : \A k \in S : j <= k

\* the for loop of checkBlockchainSales (292-296) runs on from index i up to its next
\* await; at its end the cursor is written and checkAPISales starts (272)
ChainLoop(c, r, i, seen) ==
    LET j == ChainNextNew(r.logs, i, seen, now)
    IN  IF j <= Len(r.logs)
        THEN /\ chk' = [chk EXCEPT ![c] =
                          [r EXCEPT !.pc = "chainPost", !.i = j,
                             !.saleId = HybridGenerateSaleId(ChainSale(MarketLogs[r.logs[j]]),
                                                             now)]]
             /\ UNCHANGED lastProcessedBlock
        ELSE /\ lastProcessedBlock' = r.currentBlock
             /\ chk' = [chk EXCEPT ![c] = StartApiSales(r)]

\* the first index from i on whose sale is not in the seen set (463-466)
HybridNextNew(sales, i, seen, clock) ==
    LET S == {j \in i..Len(sales) : ~Has(seen, HybridGenerateSaleId(sales[j], clock))}
    IN  IF S = {} THEN Len(sales) + 1 ELSE CHOOSE j \in S : \A k \in S : j <= k

\* the for loop of processAPISales (463-479) runs on from index i up to its next
\* await; at its end: memory management (485-489), checkAPISales returns (350)
HybridLoop(c, r, i) ==
    LET j == HybridNextNew(r.sales, i, seenSales, now)
    IN  IF j <= Len(r.sales)
        THEN /\ chk' = [chk EXCEPT ![c] =
                          [r EXCEPT !.pc = "post", !.i = j,
                                    !.saleId = HybridGenerateSaleId(r.sales[j], now)]]
             /\ UNCHANGED seenSales
        ELSE /\ seenSales' = Trim(seenSales)
             /\ chk' = [chk EXCEPT ![c] = NoCheck]

\* The interval timer of startMonitoring (264-277) fires; its callback runs to its
\* first await: provider.getBlockNumber() if a marketplace contract was found, else
\* the first request of tryDripAPI.
HybridCheckStarts(c) ==
    /\ variant = "hybrid"
    /\ FirstFree(c)
    /\ checksStarted < MaxChecks
    /\ checksStarted' = checksStarted + 1
    /\ chk' = [chk EXCEPT ![c] =
                 IF marketplaceContract
                 THEN [NoCheck EXCEPT !.pc = "getBlockNumber"]
                 ELSE StartApiSales(NoCheck)]
    /\ UNCHANGED <<now, marketplaceContract, seenSales, hPosted, lastProcessedBlock>>
    /\ frameHybrid

\* await provider.getBlockNumber() returns (282-290)
HybridGetBlockNumberReturns(c) ==
    /\ variant = "hybrid"
    /\ chk[c].pc = "getBlockNumber"
    /\ chk' = [chk EXCEPT ![c] =
                 IF chainHeight <= lastProcessedBlock
                 THEN StartApiSales(@)
                 ELSE [@ EXCEPT !.pc = "getLogs", !.currentBlock = chainHeight,
                                !.fromBlock = lastProcessedBlock + 1]]
    /\ UNCHANGED <<now, marketplaceContract, seenSales, checksStarted, hPosted,
                   lastProcessedBlock>>
    /\ frameHybrid

\* await provider.getBlockNumber() or getLogs() throws: the catch of 298 logs it,
\* checkBlockchainSales returns and checkAPISales starts
HybridProviderCallFails(c) ==
    /\ variant = "hybrid"
    /\ chk[c].pc \in {"getBlockNumber", "getLogs"}
    /\ chk' = [chk EXCEPT ![c] = StartApiSales(@)]
    /\ UNCHANGED <<now, marketplaceContract, seenSales, checksStarted, hPosted,
                   lastProcessedBlock>>
    /\ frameHybrid

\* await provider.getLogs() returns (286-296)
HybridGetLogsReturns(c) ==
    /\ variant = "hybrid"
    /\ chk[c].pc = "getLogs"
    /\ ChainLoop(c, [chk[c] EXCEPT !.logs = MarketLogsFrom(1, chk[c].fromBlock,
                                                            chk[c].currentBlock)],
                 1, seenSales)
    /\ UNCHANGED <<now, marketplaceContract, seenSales, checksStarted, hPosted>>
    /\ frameHybrid

\* await postSaleToDiscord(saleData) of processBlockchainSale returns (327-328): the id
\* is added and the loop of 292 goes on
HybridChainPostReturns(c) ==
    /\ variant = "hybrid"
    /\ chk[c].pc = "chainPost"
    /\ seenSales' = Add(seenSales, chk[c].saleId)
    /\ hPosted' = hPosted \cup {Posted(ChainSale(MarketLogs[chk[c].logs[chk[c].i]]))}
    /\ ChainLoop(c, chk[c], chk[c].i + 1, Add(seenSales, chk[c].saleId))
    /\ UNCHANGED <<now, marketplaceContract, checksStarted>>
    /\ frameHybrid

\* await postSaleToDiscord(saleData) throws: the catch of 333 logs it, the id is not
\* added and the loop of 292 goes on
HybridChainPostThrows(c) ==
    /\ variant = "hybrid"
    /\ chk[c].pc = "chainPost"
    /\ ChainLoop(c, chk[c], chk[c].i + 1, seenSales)
    /\ UNCHANGED <<now, marketplaceContract, seenSales, checksStarted, hPosted>>
    /\ frameHybrid

\* await axios.get(endpoint) of tryDripAPI returns or throws (368-386).  The first
\* array ends tryDripAPI: parseAPIResponse of it goes to checkAPISales, which calls
\* processAPISales if it holds a sale and tryCollectionScraping if it holds none.
\* After the last path tryDripAPI throws and checkAPISales calls tryCollectionScraping.
HybridEndpointResponds(c, resp) ==
    /\ variant = "hybrid"
    /\ chk[c].pc = "api"
    /\ IF resp.kind = "array" /\ Len(parseAPIResponse(resp.data, now)) > 0
       THEN HybridLoop(c, [chk[c] EXCEPT !.source = "api", !.yielded = TRUE,
                                         !.sales = parseAPIResponse(resp.data, now)], 1)
       ELSE /\ chk' = [chk EXCEPT ![c] =
                         IF resp.kind # "array" /\ chk[c].endpoint < HYBRID_ENDPOINTS
                         THEN [@ EXCEPT !.endpoint = @ + 1]
                         ELSE [@ EXCEPT !.pc = "page"]]
            /\ UNCHANGED seenSales
    /\ UNCHANGED <<now, marketplaceContract, checksStarted, hPosted, lastProcessedBlock>>
    /\ frameHybrid

\* await axios.get(page) of tryCollectionScraping returns or throws (392-420); what it
\* throws is caught at 352 and checkAPISales returns
HybridPageResponds(c, page) ==
    /\ variant = "hybrid"
    /\ chk[c].pc = "page"
    /\ IF page.kind = "array" /\ Len(extractSalesFromData(page.data)) > 0
       THEN HybridLoop(c, [chk[c] EXCEPT !.source = "scraping",
                             !.sales = [k \in DOMAIN extractSalesFromData(page.data) |->
                                          ScrapedSale(extractSalesFromData(page.data)[k])]],
                       1)
       ELSE /\ chk' = [chk EXCEPT ![c] = NoCheck]
            /\ UNCHANGED seenSales
    /\ UNCHANGED <<now, marketplaceContract, checksStarted, hPosted, lastProcessedBlock>>
    /\ frameHybrid

\* await postSaleToDiscord(sale) of processAPISales returns (470-474): the id is added,
\* the 1 s delay starts
HybridPostReturns(c) ==
    /\ variant = "hybrid"
    /\ chk[c].pc = "post"
    /\ seenSales' = Add(seenSales, chk[c].saleId)
    /\ hPosted' = hPosted \cup {Posted(chk[c].sales[chk[c].i])}
    /\ chk' = [chk EXCEPT ![c] = [@ EXCEPT !.pc = "sleep"]]
    /\ UNCHANGED <<now, marketplaceContract, checksStarted, lastProcessedBlock>>
    /\ frameHybrid

\* await postSaleToDiscord(sale) throws: the catch of 475 logs it and the loop goes on
HybridPostThrows(c) ==
    /\ variant = "hybrid"
    /\ chk[c].pc = "post"
    /\ HybridLoop(c, chk[c], chk[c].i + 1)
    /\ UNCHANGED <<now, marketplaceContract, checksStarted, hPosted, lastProcessedBlock>>
    /\ frameHybrid

\* the delay of 474 is over
HybridDelayReturns(c) ==
    /\ variant = "hybrid"
    /\ chk[c].pc = "sleep"
    /\ HybridLoop(c, chk[c], chk[c].i + 1)
    /\ UNCHANGED <<now, marketplaceContract, checksStarted, hPosted, lastProcessedBlock>>
    /\ frameHybrid

---------------------------------------------------------------------------
(* Decoder harness: one pass of the loop body of processTransferEvents (1406-1432)
   over a raw log drawn from RawLogs *)

Addresses == {ZERO_ADDRESS, ADDR_A, ADDR_B}
TokenIds == {5, 7}

TopicsShapes ==
    {<<TransferSig>>}
    \cup {<<TransferSig, f, t>> : f \in Addresses, t \in Addresses}
    \cup {<<TransferSig, f, t, id>> : f \in Addresses, t \in Addresses, id \in TokenIds}

DataShapes ==
    {<<>>}
    \cup {<<f>> : f \in Addresses}
    \cup {<<f, t, id>> : f \in Addresses, t \in Addresses, id \in TokenIds}

RawLogs == {Log(1, "T1", 0, topics, data) : topics \in TopicsShapes, data \in DataShapes}

\* what the loop body does with a log up to line 1432: the decode throws (the catch
\* skips the log), the transfer is a mint (continue), or transferData goes on to the
\* dedup check and analyzePotentialSale
LoopBody(log) ==
    LET d == DecodeTransfer(log)
    IN  IF ~d.ok THEN [done |-> TRUE, outcome |-> "skipped: decode threw"]
        ELSE IF IsMint(d.from) THEN [done |-> TRUE, outcome |-> "skipped: mint"]
        ELSE [done |-> TRUE, outcome |-> "classify", transfer |-> TransferData(log)]

DecodeLog ==
    /\ variant = "decoder"
    /\ ~decOut.done
    /\ decOut' = LoopBody(decIn)
    /\ UNCHANGED <<variant, healthCheck, decIn, chainVars, streamVars, srcVars, clsVars>>

NextLog ==
    /\ variant = "decoder"
    /\ decOut.done
    /\ decIn' \in RawLogs
    /\ decOut' = [done |-> FALSE]
    /\ UNCHANGED <<variant, healthCheck, chainVars, streamVars, srcVars, clsVars>>

---------------------------------------------------------------------------
(* Classifier harness: analyzePotentialSale (1471-1531) over a transaction context
   drawn from Contexts *)

Contexts ==
    [fetched : BOOLEAN,
     value : {0, 3, 15},
     to : {"", TENSHIS_CONTRACT_ADDRESS, MARKET, ADDR_B},
     code : {"0x", "0x60", "throw"},
     nLogs : 0..3,
     gasUsed : {21000, 100000, 100001, 120000}]

NoRun == [done |-> FALSE]

\* mutant of TransactionContext: the event count read depends on the seen set
TransactionContext_CountsSeen == [clsIn EXCEPT !.nLogs = @ + Len(lastSeenTransfers)]

\* what analyzePotentialSale works on: tx, receipt and code, which it gets from the
\* provider by transferData.txHash (1476-1496, part_000 285-292); it reads nothing
\* else of the bot and no clock
TransactionContext == clsIn

Analyze ==
    /\ variant = "classifier"
    /\ ~clsOut.done
    /\ clsOut' = [done |-> TRUE,
                   analysis |-> analyzePotentialSale(TransactionContext),
                   streamIsSale |-> StreamIsSale(TransactionContext)]
    /\ UNCHANGED <<variant, healthCheck,
                   clsIn, clsPrev, chainVars, streamVars, srcVars, decVars>>

NextTransaction ==
    /\ variant = "classifier"
    /\ clsOut.done
    /\ clsIn' \in Contexts
    /\ clsOut' = [done |-> FALSE]
    /\ clsPrev' = NoRun
    /\ lastProcessedBlock' = 0
    /\ lastSeenTransfers' = <<>>
    /\ UNCHANGED <<variant, healthCheck,
                   chainHeight, monitoringCount, initialTimer, cyc, hLastBatch,
                   hScan, hTrim, hFail, streamVars, srcVars, decVars>>

\* the same transaction is analysed once more, by a bot whose cursor and seen set
\* differ; the run just made is remembered
RepeatTransaction ==
    /\ variant = "classifier"
    /\ clsOut.done
    /\ clsPrev' = [done |-> TRUE, in |-> clsIn, analysis |-> clsOut.analysis,
                    streamIsSale |-> clsOut.streamIsSale]
    /\ clsOut' = [done |-> FALSE]
    /\ lastProcessedBlock' \in {0, 1}
    /\ lastSeenTransfers' \in {<<>>, <<KeyOf(2)>>}
    /\ UNCHANGED <<variant, healthCheck,
                   clsIn, chainHeight, monitoringCount, initialTimer, cyc,
                   hLastBatch, hScan, hTrim, hFail, streamVars, srcVars, decVars>>

---------------------------------------------------------------------------
(* Specifications *)

\* the state after the constructor (36-41) and initialize() (47-68): connectWebSocket
\* has created the first socket and set its connection timeout
InitStreamVars ==
    /\ socks = <<"connecting">>
    /\ connTimeouts = 1
    /\ reconnTimers = <<>>
    /\ pollers = 0
    /\ wsReconnectAttempts = 0
    /\ isConnected = FALSE
    /\ lastSeenSales = {}
    /\ salesCount = 0
    /\ hnd = [h \in Handlers |-> NoHandler]
    /\ messages = 0
    /\ hDelays = <<>>
    /\ hFailures = 0
    /\ hCapAt = 0
    /\ hSent = <<>>

\* the state after initialize(): the cursor is the height read at start (1231)
InitChainVars ==
    /\ chainHeight = 0
    /\ lastProcessedBlock = 0
    /\ lastSeenTransfers = <<>>
    /\ monitoringCount = 0
    /\ initialTimer = TRUE
    /\ cyc = [c \in Cycles |-> Idle]
    /\ hLastBatch = <<>>
    /\ hScan = NoScan
    /\ hTrim = NoTrim
    /\ hFail = NoFail

\* the state after the constructor of TenshisSalesBot (38-52, 671-684)
InitSourceVars ==
    /\ now = 1
    /\ marketplaceContract = FALSE
    /\ seenSales = <<>>
    /\ checksStarted = 0
    /\ chk = [c \in Checks |-> NoCheck]
    /\ hPosted = {}

\* no sendHealthCheck call has started
HealthIdle == healthCheck = FALSE

\* the harness variables, at rest while a bot runs
DecoderIdle == decIn = Log(0, "", 0, <<>>, <<>>) /\ decOut = [done |-> FALSE]
ClassifierIdle == clsIn = FetchFailed /\ clsOut = [done |-> FALSE] /\ clsPrev = [done |-> FALSE]

InitChain ==
    /\ variant = "chain"
    /\ HealthIdle /\ InitChainVars /\ InitStreamVars /\ InitSourceVars /\ DecoderIdle /\ ClassifierIdle

NextChain ==
    \/ \E c \in Cycles : InitialTimerFires(c)
    \/ \E c \in Cycles : IntervalTimerFires(c)
    \/ \E c \in Cycles : GetBlockNumberReturns(c)
    \/ \E c \in Cycles : ProviderCallFails(c)
    \/ \E c \in Cycles : ErrorNotificationReturns(c)
    \/ \E c \in Cycles : GetLogsReturns(c)
    \/ \E c \in Cycles, fetched \in BOOLEAN : AnalysisReturns(c, fetched)
    \/ \E c \in Cycles : PostReturns(c)
    \/ \E c \in Cycles : PostThrows(c)
    \/ \E c \in Cycles : DelayReturns(c)
    \/ BlockProduced

SpecChain == InitChain /\ [][NextChain]_vars

InitStream ==
    /\ variant = "stream"
    /\ HealthIdle /\ InitChainVars /\ InitStreamVars /\ InitSourceVars /\ DecoderIdle /\ ClassifierIdle

NextStream ==
    \/ \E s \in DOMAIN socks : SocketOpens(s)
    \/ \E s \in DOMAIN socks : SocketErrors(s)
    \/ \E s \in DOMAIN socks : SocketCloses(s)
    \/ ConnectionTimeoutFires
    \/ \E k \in DOMAIN reconnTimers : ReconnectTimerFires(k)
    \/ \E s \in DOMAIN socks, h \in Handlers, m \in StreamMessages : \E clock \in ClockRead(m) :
          MessageArrives(s, h, m, clock)
    \/ \E h \in Handlers, tx \in StreamTxs : StreamAnalysisReturns(h, tx)
    \/ \E h \in Handlers : ChannelFetched(h)
    \/ \E h \in Handlers : ChannelFetchThrows(h)
    \/ \E h \in Handlers, delivered \in BOOLEAN : SendEnds(h, delivered)

SpecStream == InitStream /\ [][NextStream]_vars

\* a process runs one of the bots
Init == InitChain \/ InitStream

Next == NextChain \/ NextStream

Spec == Init /\ [][Next]_vars

InitDecoder ==
    /\ variant = "decoder"
    /\ decIn \in RawLogs
    /\ decOut = [done |-> FALSE]
    /\ HealthIdle /\ InitChainVars
    /\ InitStreamVars
    /\ InitSourceVars
    /\ ClassifierIdle

NextDecoder == DecodeLog \/ NextLog

SpecDecoder == InitDecoder /\ [][NextDecoder]_vars

InitClassifier ==
    /\ variant = "classifier"
    /\ clsIn \in Contexts
    /\ clsOut = [done |-> FALSE]
    /\ clsPrev = NoRun
    /\ HealthIdle /\ InitChainVars
    /\ InitStreamVars
    /\ InitSourceVars
    /\ DecoderIdle

NextClassifier == Analyze \/ NextTransaction \/ RepeatTransaction

SpecClassifier == InitClassifier /\ [][NextClassifier]_vars

InitApi ==
    /\ variant = "api"
    /\ HealthIdle /\ InitChainVars /\ InitStreamVars /\ InitSourceVars /\ DecoderIdle /\ ClassifierIdle

NextApi ==
    \/ \E c \in Checks : ApiCheckStarts(c)
    \/ \E c \in Checks, resp \in ApiResponses : ApiEndpointResponds(c, resp)
    \/ \E c \in Checks, page \in PageResponses : ApiPageResponds(c, page)
    \/ \E c \in Checks : ApiPostReturns(c)
    \/ \E c \in Checks : ApiPostThrows(c)
    \/ \E c \in Checks : ApiDelayReturns(c)
    \/ ClockTicks

SpecApi == InitApi /\ [][NextApi]_vars

\* the state after initialize() of the hybrid bot (54-90): the marketplace contract
\* was discovered or was not, the cursor is the height read at start
InitHybrid ==
    /\ variant = "hybrid"
    /\ HealthIdle /\ InitChainVars /\ InitStreamVars /\ DecoderIdle /\ ClassifierIdle
    /\ now = 1
    /\ marketplaceContract \in BOOLEAN
    /\ seenSales = <<>>
    /\ checksStarted = 0
    /\ chk = [c \in Checks |-> NoCheck]
    /\ hPosted = {}

NextHybrid ==
    \/ \E c \in Checks : HybridCheckStarts(c)
    \/ \E c \in Checks : HybridGetBlockNumberReturns(c)
    \/ \E c \in Checks : HybridProviderCallFails(c)
    \/ \E c \in Checks : HybridGetLogsReturns(c)
    \/ \E c \in Checks : HybridChainPostReturns(c)
    \/ \E c \in Checks : HybridChainPostThrows(c)
    \/ \E c \in Checks, resp \in HybridApiResponses : HybridEndpointResponds(c, resp)
    \/ \E c \in Checks, page \in HybridPageResponses : HybridPageResponds(c, page)
    \/ \E c \in Checks : HybridPostReturns(c)
    \/ \E c \in Checks : HybridPostThrows(c)
    \/ \E c \in Checks : HybridDelayReturns(c)
    \/ ClockTicks
    \/ BlockProduced

SpecHybrid == InitHybrid /\ [][NextHybrid]_vars

\* a process runs one of the two TenshisSalesBot variants
InitSource == InitApi \/ InitHybrid

NextSource == NextApi \/ NextHybrid

SpecSource == InitSource /\ [][NextSource]_vars

\* the network call that checkBlockchainTransfers call c awaits returns or fails
ChainCallReturns(c) ==
    \/ GetBlockNumberReturns(c)
    \/ ProviderCallFails(c)
    \/ ErrorNotificationReturns(c)
    \/ GetLogsReturns(c)
    \/ \E fetched \in BOOLEAN : AnalysisReturns(c, fetched)
    \/ PostReturns(c)
    \/ PostThrows(c)
    \/ DelayReturns(c)

\* the network call that performMonitoringCheck call c awaits returns or fails
ApiCallReturns(c) ==
    \/ \E resp \in ApiResponses : ApiEndpointResponds(c, resp)
    \/ \E page \in PageResponses : ApiPageResponds(c, page)
    \/ ApiPostReturns(c)
    \/ ApiPostThrows(c)
    \/ ApiDelayReturns(c)

\* a process runs the chain bot or the API-polling bot, and every network call of a
\* check that has started returns or fails in the end
InitScan == InitChain \/ InitApi

NextScan == NextChain \/ NextApi

SpecScanFair ==
    /\ InitScan
    /\ [][NextScan]_vars
    /\ \A c \in Cycles : WF_vars(ChainCallReturns(c)) /\ WF_vars(ApiCallReturns(c))

\* The health interval timer (src/bot.js 773-775, 1342-1344; part_000 520) fires:
\* sendHealthCheck logs the counters and awaits its first network call
\* (provider.getBlockNumber or channels.fetch)
HealthCheckFires ==
    /\ variant \in {"chain", "api", "stream"}
    /\ ~healthCheck
    /\ healthCheck' = TRUE
    /\ UNCHANGED <<variant, chainVars, streamVars, srcVars, decVars, clsVars>>

\* mutant of HealthCheckEnds: the health check writes the flag it reports
HealthCheckEnds_ClearsFlag ==
    /\ healthCheck
    /\ healthCheck' = FALSE
    /\ isConnected' = FALSE
    /\ UNCHANGED <<socks, connTimeouts, reconnTimers, pollers, wsReconnectAttempts,
                   lastSeenSales, salesCount, hnd, messages, hDelays, hFailures,
                   hCapAt, hSent>>
    /\ UNCHANGED <<variant, chainVars, srcVars, decVars, clsVars>>

\* channel.send of the health embed returns, or one of the awaited calls throws and
\* the catch logs it (src/bot.js 1052-1083, 1613-1654; part_000 524-559)
HealthCheckEnds ==
    /\ healthCheck
    /\ healthCheck' = FALSE
    /\ UNCHANGED <<variant, chainVars, streamVars, srcVars, decVars, clsVars>>

\* a process runs a bot that has a health timer: the chain bot, the API-polling bot
\* or the stream bot
InitHealth == InitChain \/ InitApi \/ InitStream

NextHealth ==
    \/ NextChain
    \/ NextApi
    \/ NextStream
    \/ HealthCheckFires
    \/ HealthCheckEnds

SpecHealth == InitHealth /\ [][NextHealth]_vars

\* a process runs a bot that scans the chain: the chain bot or the hybrid bot
InitChainScan == InitChain \/ InitHybrid

NextChainScan == NextChain \/ NextHybrid

SpecChainScan == InitChainScan /\ [][NextChainScan]_vars

---------------------------------------------------------------------------
(* Claims *)

\* C1 (as claimed): when processTransferEvents runs twice in a row over the same batch
\* of logs, neither run interleaved with another, the second run hands no sale to
\* the notifier.
C1_SecondPassEmitsNone ==
    \A c \in Cycles : cyc[c].repeat => cyc[c].pc # "post"

\* C2 (as claimed): at most one checkBlockchainTransfers call is in flight.
C2_SingleScanInFlight ==
    Cardinality({c \in Cycles : cyc[c].pc # "idle"}) <= 1

\* C3 (as claimed): no step decreases lastProcessedBlock.
C3_CursorNeverDecreases ==
    [][lastProcessedBlock' >= lastProcessedBlock]_vars

\* C4 (as claimed): when the cursor advances from L to H, every block of L+1..H was
\* in the range of the getLogs call of that check.
C4_AdvanceScansEveryBlock ==
    hScan.new > hScan.old =>
        \A b \in (hScan.old + 1)..hScan.new : hScan.from <= b /\ b <= hScan.to

\* C4 (amended): when a check writes H to the cursor, having read L as the cursor
\* when it computed its range, the blocks its getLogs call covered are exactly
\* max(L+1, H-BLOCK_RANGE)..H; the blocks L+1..H-BLOCK_RANGE-1 are not scanned.
C4_AdvanceScansLookbackWindow ==
    hScan # NoScan =>
        \A b \in 1..MaxHeight :
            (hScan.from <= b /\ b <= hScan.to)
            <=> (/\ b >= hScan.base + 1
                 /\ b >= hScan.new - BLOCK_RANGE
                 /\ b <= hScan.new)

\* a check has written the cursor after more than BLOCK_RANGE + 1 new blocks: the
\* oldest of them was not scanned
C4_Witness ==
    /\ hScan # NoScan
    /\ hScan.new - hScan.base > BLOCK_RANGE + 1
    /\ hScan.from > hScan.base + 1

\* C5 (as claimed): the seen set never holds more than its capacity.
C5_SeenSetBounded == Len(lastSeenTransfers) <= SEEN_LIMIT

\* C6 (as claimed): a trim keeps the most recently inserted half of the capacity and
\* drops the oldest keys.
C6_TrimKeepsNewest ==
    hTrim # NoTrim =>
        hTrim.after = SubSeq(hTrim.before, Len(hTrim.before) - SEEN_KEEP + 1,
                             Len(hTrim.before))

\* C7: a transfer whose from address is the zero address is never classified and
\* never notified as a sale.  Chain-scan path: no processTransferEvents call is at
\* analyzePotentialSale, at postSaleToDiscord or at the delay after them for a
\* transfer from the zero address, and no such transfer's id is in the seen set.
\* Stream path: no handleCollectionEvent call is at analyzePotentialSale or in
\* processSale for an event from the zero address.
C7_MintNeverClassified ==
    /\ \A c \in Cycles :
         InPass(c) => DecodeTransfer(ChainLogs[cyc[c].logs[cyc[c].i]]).from # ZERO_ADDRESS
    /\ \A l \in LogIds :
         LET d == DecodeTransfer(ChainLogs[l])
         IN  d.ok /\ d.from = ZERO_ADDRESS => ~Has(lastSeenTransfers, KeyOf(l))
    /\ \A h \in Handlers :
         hnd[h].kind = "collection" => hnd[h].ev.from # ZERO_ADDRESS

\* a processTransferEvents call has gone through a batch that holds a transfer from
\* the zero address, and that batch had a sale in it too
C7_Witness ==
    /\ \E k \in DOMAIN hLastBatch :
         LET d == DecodeTransfer(ChainLogs[hLastBatch[k]])
         IN  d.ok /\ d.from = ZERO_ADDRESS
    /\ \E k \in DOMAIN hLastBatch :
         /\ DecodeTransfer(ChainLogs[hLastBatch[k]]).ok
         /\ Has(lastSeenTransfers, KeyOf(hLastBatch[k]))

\* C8 (as claimed): for a log with four or more topics, from, to and tokenId are
\* topics[1], topics[2], topics[3] (here 2, 3, 4: sequences start at 1), and the
\* log is not skipped for what its data holds.
C8_FourTopicsDecodeFromTopics ==
    (decOut.done /\ Len(decIn.topics) >= 4) =>
        /\ decOut.outcome # "skipped: decode threw"
        /\ decOut.outcome = "classify" =>
              /\ decOut.transfer.from = decIn.topics[2]
              /\ decOut.transfer.to = decIn.topics[3]
              /\ decOut.transfer.tokenId = ToString(decIn.topics[4])

ScenarioLog == Log(1, "T1", 0, <<TransferSig, ADDR_A, ADDR_B, 5>>, <<>>)

\* C9 (as claimed): the log [TransferSig, pad(A), pad(B), 5] with empty data decodes
\* to {from: A, to: B, tokenId: "5"} and goes on to classification.
C9_ScenarioLogDecodes ==
    (decOut.done /\ decIn = ScenarioLog) =>
        /\ decOut.outcome = "classify"
        /\ decOut.transfer.from = ADDR_A
        /\ decOut.transfer.to = ADDR_B
        /\ decOut.transfer.tokenId = "5"

ZeroValueToCollection ==
    clsOut.done /\ clsIn.value = 0 /\ clsIn.to = TENSHIS_CONTRACT_ADDRESS

\* C10 (as claimed): a transaction with value 0 sent to the collection contract gets
\* confidence 0 and isSale = false, whatever its event count and gas used.
C10_ZeroValueToCollectionScoresZero ==
    ZeroValueToCollection =>
        clsOut.analysis.confidence = 0 /\ ~clsOut.analysis.isSale

\* C10 (amended): such a transaction gets isSale = false and a confidence of 20 if
\* its receipt has more than one event plus 10 if its gas used exceeds 100000 (0 when
\* the transaction or its receipt could not be fetched).
C10_ZeroValueToCollectionNoSale ==
    ZeroValueToCollection =>
        /\ ~clsOut.analysis.isSale
        /\ clsOut.analysis.confidence =
              (IF clsIn.fetched /\ clsIn.nLogs > 1 THEN 20 ELSE 0)
            + (IF clsIn.fetched /\ clsIn.gasUsed > 100000 THEN 10 ELSE 0)

\* such a transaction has been analysed and scored 30
C10_Witness ==
    /\ ZeroValueToCollection
    /\ clsIn.fetched /\ clsIn.nLogs = 3 /\ clsIn.gasUsed = 120000
    /\ clsOut.analysis.confidence = 30

\* the transaction of the scenario: value 1.5 (15 tenths), sent to a contract with
\* code that is not the collection contract, 3 events in the receipt, gas used 120000
MarketplaceScenario ==
    /\ clsOut.done
    /\ clsIn.fetched
    /\ clsIn.value = 15
    /\ clsIn.to \in {MARKET, ADDR_B}
    /\ clsIn.code = "0x60"
    /\ clsIn.nLogs = 3
    /\ clsIn.gasUsed = 120000

\* C11: for the transaction of the scenario the classifier returns confidence 100,
\* isSale = true and the price "1.5 HYPE".
C11_MarketplaceScenarioScores100 ==
    MarketplaceScenario =>
        /\ clsOut.analysis.confidence = 100
        /\ clsOut.analysis.isSale
        /\ clsOut.analysis.price = "1.5 HYPE"

\* the transaction of the scenario, sent to the marketplace, has been analysed
C11_Witness ==
    /\ MarketplaceScenario
    /\ clsIn.to = MARKET
    /\ clsOut.analysis.marketplace = MARKET

C13_OneReconnectPerDisconnect ==
    /\ Len(hDelays) = IF hFailures <= MAX_RECONNECT_ATTEMPTS
                      THEN hFailures ELSE MAX_RECONNECT_ATTEMPTS
    /\ \A k \in DOMAIN hDelays : hDelays[k] = RECONNECT_DELAY * 2 ^ (k - 1)

\* C14 (as claimed): once scheduleReconnect has found the attempt cap reached and
\* has switched to polling, no socket is created any more and the bot is never
\* connected to the stream again.
C14_NoReconnectAfterCap ==
    hCapAt > 0 => (Len(socks) = hCapAt /\ ~isConnected)

\* C15 (as claimed): when the connection timeout fires and the bot is not connected,
\* the attempt counter is incremented and a reconnect is scheduled, as on a
\* disconnect; polling is entered only when the attempt cap is reached.
C15_TimeoutActsAsDisconnect ==
    [][(connTimeouts' < connTimeouts /\ ~isConnected) =>
          IF wsReconnectAttempts < MAX_RECONNECT_ATTEMPTS
          THEN /\ wsReconnectAttempts' = wsReconnectAttempts + 1
               /\ Len(reconnTimers') = Len(reconnTimers) + 1
               /\ pollers' = pollers
          ELSE pollers' = pollers + 1]_vars

\* a step of a check whose getBlockNumber or getLogs call failed: into its catch
\* block, or out of it
FailureStep(c) ==
    \/ cyc[c].pc \in {"getBlockNumber", "getLogs"} /\ cyc'[c].pc = "errorNotify"
    \/ cyc[c].pc = "errorNotify" /\ cyc'[c].pc = "idle"

\* the steps of a failed check change neither the cursor nor the seen set and hand
\* no sale to the notifier
FailedCheckChangesNothing ==
    \A c \in Cycles :
        FailureStep(c) =>
            /\ lastProcessedBlock' = lastProcessedBlock
            /\ lastSeenTransfers' = lastSeenTransfers
            /\ \A d \in Cycles : cyc'[d].pc = "post" => cyc[d].pc = "post"

\* check c computes its range, the first to do so after a check's getLogs call
\* failed, and the cursor is what the failed check read
RetryStep(c) ==
    /\ hFail # NoFail
    /\ lastProcessedBlock = hFail.base
    /\ cyc[c].pc = "getBlockNumber"
    /\ cyc'[c].pc = "getLogs"

\* C16 (as claimed): a check whose getBlockNumber or getLogs call fails leaves the
\* cursor and the seen set unchanged and notifies no sale, and the next check scans
\* a range that starts at the block where the failed check's range started.
C16_FailedCheckRetriesSameRange ==
    [][/\ FailedCheckChangesNothing
       /\ \A c \in Cycles : RetryStep(c) => cyc'[c].fromBlock = hFail.from]_vars

\* C16 (amended): such a check leaves the cursor and the seen set unchanged and
\* notifies no sale, and the next check computes its range from the same cursor L:
\* it starts at max(L+1, currentBlock - BLOCK_RANGE), at or after the block where the
\* failed check's range started.
C16_FailedCheckRetriesFromCursor ==
    [][/\ FailedCheckChangesNothing
       /\ \A c \in Cycles :
            RetryStep(c) =>
                /\ cyc'[c].fromBlock = Max(hFail.base + 1, cyc'[c].currentBlock - BLOCK_RANGE)
                /\ cyc'[c].fromBlock >= hFail.from]_vars

\* a check's getLogs call has failed, the cursor is as that check read it, the chain
\* has grown past the lookback since, and the next check is about to compute its range
C16_Witness ==
    /\ hFail # NoFail
    /\ lastProcessedBlock = hFail.base
    /\ chainHeight - BLOCK_RANGE > hFail.from
    /\ \E c \in Cycles : cyc[c].pc = "getBlockNumber"
    /\ \A c \in Cycles : cyc[c].pc \in {"idle", "getBlockNumber"}

\* C17 (as claimed): however the delivery of a sale notification ends, by returning
\* or by throwing, the transfer's id is in the seen set afterwards.
C17_FailedDeliveryMarksSeen ==
    [][\A c \in Cycles :
          (cyc[c].pc = "post" /\ cyc'[c].pc # "post") =>
              Has(lastSeenTransfers', KeyOf(cyc[c].logs[cyc[c].i]))]_vars

\* call c is between the membership check for its transfer and the insertion of
\* its id
BetweenCheckAndInsert(c) == cyc[c].pc \in {"analyze", "post"}

\* C18 (as claimed): no two calls are between the membership check and the
\* insertion for the same transfer at once, and no call is delivering a
\* notification for a transfer whose id is in the seen set already.
C18_OneNotificationPerTransfer ==
    /\ \A c, d \in Cycles :
         (c # d /\ BetweenCheckAndInsert(c) /\ BetweenCheckAndInsert(d)) =>
             cyc[c].logs[cyc[c].i] # cyc[d].logs[cyc[d].i]
    /\ \A c \in Cycles :
         cyc[c].pc = "post" => ~Has(lastSeenTransfers, KeyOf(cyc[c].logs[cyc[c].i]))

\* C19 (as claimed): the dedup key of a streamed sale record is the same at whatever
\* wall-clock time it is computed, with or without a timestamp field.
C19_KeyIndependentOfClock ==
    \A h \in Handlers :
        hnd[h].kind = "sale" =>
            \A t \in Clock : hnd[h].saleId = generateSaleId(hnd[h].ev, t)

\* C20 (as claimed): a check that calls getLogs uses fromBlock = max(cursor + 1,
\* currentBlock - BLOCK_RANGE) and toBlock = currentBlock, and its range holds at
\* least one block and at most BLOCK_RANGE blocks.
C20_RangeWithinLookback ==
    \A c \in Cycles :
        cyc[c].pc = "getLogs" =>
            /\ cyc[c].fromBlock = Max(cyc[c].base + 1, cyc[c].currentBlock - BLOCK_RANGE)
            /\ cyc[c].currentBlock - cyc[c].fromBlock + 1 >= 1
            /\ cyc[c].currentBlock - cyc[c].fromBlock + 1 <= BLOCK_RANGE

\* C21: in one check the secondary-source adapter processes records from at most one
\* source: once an API path has yielded records, the marketplace page is neither
\* fetched nor processed in that check.
C21_OneSourcePerCheck ==
    \A c \in Checks :
        chk[c].yielded => chk[c].pc # "page" /\ chk[c].source # "scraping"

\* the answers that hold no record
EmptyAnswers == {RequestFails, NotAnArray, NoPattern, ArrayResponse(<<>>)}

\* a step in which check c, with no records from any API path so far, is given an
\* answer that holds none
AnsweredWithoutRecords(c) ==
    /\ ~chk[c].yielded
    /\ \E resp \in EmptyAnswers :
          \/ ApiEndpointResponds(c, resp)
          \/ ApiPageResponds(c, resp)
          \/ HybridEndpointResponds(c, resp)
          \/ HybridPageResponds(c, resp)

\* C22: when no API path and no page pattern yields records, also when every request
\* fails, the check goes on to the next path, then to the page, and ends there: no
\* exception takes it anywhere else, no notification is emitted and the seen set is
\* unchanged.
C22_NoRecordsEndsEmpty ==
    [][\A c \in Checks :
          AnsweredWithoutRecords(c) =>
              /\ seenSales' = seenSales
              /\ hPosted' = hPosted
              /\ IF chk[c].pc = "page"
                 THEN chk'[c] = NoCheck
                 ELSE \/ chk'[c].pc = "api" /\ chk'[c].endpoint = chk[c].endpoint + 1
                      \/ chk'[c].pc = "page"]_vars

\* every API path of a check has given nothing and the page is requested
C22_Witness ==
    \E c \in Checks :
        /\ chk[c].pc = "page"
        /\ ~chk[c].yielded
        /\ hPosted = {}
        /\ seenSales = <<>>


\* C27: an API path that answers with an empty array is not a success: the adapter
\* goes on to query the next path of its list.
C27_EmptyArrayTriesNextPath ==
    [][\A c \in Checks :
          /\ chk[c].pc = "api"
          /\ chk[c].endpoint < (IF variant = "api" THEN API_ENDPOINTS ELSE HYBRID_ENDPOINTS)
          /\ \/ ApiEndpointResponds(c, ArrayResponse(<<>>))
             \/ HybridEndpointResponds(c, ArrayResponse(<<>>))
          => chk'[c].pc = "api" /\ chk'[c].endpoint = chk[c].endpoint + 1]_vars

\* C28: a secondary-source record is passed to the dedup gate only if it carries both
\* a token identifier and a price; a record lacking either one is dropped.
C28_OnlyCompleteRecordsReachDedup ==
    \A c \in Checks :
        \A k \in DOMAIN chk[c].sales :
            chk[c].sales[k].raw.tokenId # "" /\ chk[c].sales[k].raw.price # <<>>

\* C29: a marketplace record the secondary source returns unchanged in two polling
\* cycles is notified once: a check never notifies a record that had been notified
\* when the check started.
C29_UnchangedRecordNotifiedOnce ==
    \A c \in Checks :
        chk[c].pc = "sleep" => chk[c].sales[chk[c].i].raw \notin chk[c].prior

\* C30: a sale observed both as a marketplace contract log and as a marketplace API
\* record is notified once, not once per source.
C30_OneNotificationAcrossSources ==
    \A p \in hPosted, q \in hPosted :
        p.source = "blockchain" /\ q.txHash = p.txHash => q.source = "blockchain"


\* the transaction and the receipt were fetched, and so was the code of the
\* destination if the destination is an address other than the collection contract
ContextFetched ==
    /\ clsIn.fetched
    /\ ~(clsIn.to # "" /\ clsIn.to # TENSHIS_CONTRACT_ADDRESS /\ clsIn.code = "throw")

\* the destination is a contract other than the collection contract
ToOtherContract ==
    clsIn.to # "" /\ clsIn.to # TENSHIS_CONTRACT_ADDRESS /\ clsIn.code # "0x"

BatchHasUndecodable(c) ==
    \E k \in DOMAIN GetLogs(cyc[c].fromBlock, cyc[c].currentBlock) :
        ~DecodeTransfer(ChainLogs[GetLogs(cyc[c].fromBlock, cyc[c].currentBlock)[k]]).ok

\* a step in which check c, past its getLogs call, ends
PassEnds(c) == cyc[c].pc \in {"getLogs", "post", "sleep"} /\ cyc'[c].pc = "idle"

\* C24: a log whose decoding fails is skipped: no call classifies or notifies it and
\* its id never enters the seen set.  The check whose batch holds it ends only when
\* no later log of the batch is left to classify, and it then writes the height it
\* read, which is above the cursor it started from, to the cursor.
C24_UndecodableLogSkipped ==
    /\ [](\A c \in Cycles : InPass(c) => DecodeTransfer(ChainLogs[cyc[c].logs[cyc[c].i]]).ok)
    /\ [](\A l \in LogIds :
            ~DecodeTransfer(ChainLogs[l]).ok =>
                ~Has(lastSeenTransfers,
                     <<ChainLogs[l].transactionHash, ChainLogs[l].logIndex>>))
    /\ [][\A c \in Cycles :
            PassEnds(c) /\ BatchHasUndecodable(c) =>
                LET logs == GetLogs(cyc[c].fromBlock, cyc[c].currentBlock)
                IN  /\ \A j \in (cyc[c].i + 1)..Len(logs) :
                          ~ReachesAnalysis(logs[j], lastSeenTransfers)
                    /\ lastProcessedBlock' = cyc[c].currentBlock
                    /\ cyc[c].currentBlock > cyc[c].base]_vars

\* a check has scanned blocks 1 and 2, whose logs are one that does not decode and,
\* after it, a sale: the sale's id is in the seen set and the cursor is written
C24_Witness ==
    /\ hScan.from = 1
    /\ hScan.to >= 2
    /\ ~DecodeTransfer(ChainLogs[1]).ok
    /\ Has(lastSeenTransfers, KeyOf(2))
    /\ lastProcessedBlock = hScan.new


\* the transfer of log l is classified as a sale when its transaction is fetched
SaleWhenFetched(l) == analyzePotentialSale(TxContext(ChainLogs[l].transactionHash)).isSale

\* C25: when the transaction or the receipt of a transfer cannot be fetched, the
\* transfer is classified isSale = false with confidence 0, whatever the transaction
\* holds; postSaleToDiscord is not called for it, and the call goes on to the delay
\* with its batch and its index as they were, from where the loop takes the next log.
C25_FetchFailureIsNoSale ==
    /\ [](\A l \in LogIds :
            LET saleInfo == analyzePotentialSale(
                                [TxContext(ChainLogs[l].transactionHash)
                                    EXCEPT !.fetched = FALSE])
            IN  ~saleInfo.isSale /\ saleInfo.confidence = 0)
    /\ [](\A c \in Cycles : cyc[c].failed => cyc[c].pc = "sleep")
    /\ [][\A c \in Cycles :
            AnalysisReturns(c, FALSE) =>
                /\ cyc'[c].pc = "sleep"
                /\ cyc'[c].logs = cyc[c].logs
                /\ cyc'[c].i = cyc[c].i]_vars
    /\ [][\A c \in Cycles :
            cyc[c].failed /\ cyc'[c].pc \notin {"sleep", "analyze"} =>
                /\ cyc'[c].pc = "idle"
                /\ \A j \in (cyc[c].i + 1)..Len(cyc[c].logs) :
                       ~ReachesAnalysis(cyc[c].logs[j], lastSeenTransfers)]_vars

\* the fetch failed for a transfer that is a sale when fetched, the call is in the
\* delay after it, and a later log of its batch is still to be classified
C25_Witness ==
    \E c \in Cycles :
        /\ cyc[c].failed
        /\ cyc[c].pc = "sleep"
        /\ SaleWhenFetched(cyc[c].logs[cyc[c].i])
        /\ \E j \in (cyc[c].i + 1)..Len(cyc[c].logs) :
               ReachesAnalysis(cyc[c].logs[j], lastSeenTransfers)

\* C26: every check that has started ends, its record free for the next timer tick,
\* when every network call returns or fails; and no failure at one item (decode,
\* classification, notification) takes a check out of its loop to the catch of
\* checkBlockchainTransfers or of performMonitoringCheck.
C26_EveryCheckEnds ==
    /\ \A c \in Cycles : cyc[c].pc # "idle" ~> cyc[c].pc = "idle"
    /\ \A c \in Checks : chk[c].pc # "idle" ~> chk[c].pc = "idle"
    /\ [][\A c \in Cycles : InPass(c) => cyc'[c].pc # "errorNotify"]_vars
    /\ [](\A c \in Checks : chk[c].pc # "errorNotify")

\* a check of the chain bot has scanned block 2 and run to its end, the cursor
\* written, after the notification of the sale of that block failed: with nothing
\* trimmed, the seen set lacks the sale's id
C26_Witness ==
    /\ \A c \in Cycles : cyc[c].pc = "idle"
    /\ hScan.from <= 2 /\ hScan.to >= 2
    /\ lastProcessedBlock = hScan.new
    /\ ~Has(lastSeenTransfers, KeyOf(2))
    /\ hTrim = NoTrim

\* C34: the confidence the classifier returns is an integer from 0 to 100, for every
\* transaction value, destination, destination code, event count and gas used, and
\* when a fetch fails.
C34_ConfidenceWithin0And100 ==
    clsOut.done => clsOut.analysis.confidence \in 0..100

\* a transaction with all four factors, gas just above the threshold, scored 100
C34_Witness ==
    /\ clsOut.done
    /\ clsIn.gasUsed = GAS_THRESHOLD + 1
    /\ clsOut.analysis.confidence = 100

\* C35: when the height a check reads is not above lastProcessedBlock, the check
\* calls no getLogs and no postSaleToDiscord and leaves lastProcessedBlock and the
\* seen set as they are: checkBlockchainTransfers returns, checkBlockchainSales
\* returns to the monitoring callback.
C35_NoNewBlockChangesNothing ==
    [][\A c \in Cycles :
         /\ GetBlockNumberReturns(c) /\ chainHeight <= lastProcessedBlock =>
                /\ cyc'[c].pc = "idle"
                /\ lastProcessedBlock' = lastProcessedBlock
                /\ lastSeenTransfers' = lastSeenTransfers
         /\ HybridGetBlockNumberReturns(c) /\ chainHeight <= lastProcessedBlock =>
                /\ chk'[c].pc \notin {"getLogs", "chainPost"}
                /\ lastProcessedBlock' = lastProcessedBlock
                /\ seenSales' = seenSales
                /\ hPosted' = hPosted]_vars

\* after a scan wrote the cursor, a check of the chain bot read the same height and
\* returned
C35_Witness ==
    /\ hScan # NoScan
    /\ chainHeight = lastProcessedBlock
    /\ \E c \in Cycles : cyc[c].pc = "idle" /\ cyc[c].skipped

\* C31 (as claimed): every sale notification carries a sequence counter above the
\* counter of every sale notification delivered before it.
C31_CounterStrictlyIncreases ==
    \A i, j \in DOMAIN hSent : i < j => hSent[i].counter < hSent[j].counter

\* C33 (as claimed): once a sale notification is delivered, the seen set holds the
\* key of that sale (the stream bot never trims its set): the key computed by
\* handleSaleEvent, or for a collection event a key for its token.
C33_NotifiedSaleIsInSeenSet ==
    \A k \in DOMAIN hSent :
        IF hSent[k].kind = "sale"
        THEN hSent[k].saleId \in lastSeenSales
        ELSE \E id \in lastSeenSales : id[1] = hSent[k].tokenId

\* C36 (as claimed): no two notifications are delivered for sale events with the
\* same dedup key.
C36_OneNotificationPerStreamedSale ==
    \A i, j \in DOMAIN hSent :
        (i # j /\ hSent[i].kind = "sale" /\ hSent[j].kind = "sale") =>
            hSent[i].saleId # hSent[j].saleId

\* C37 (as claimed): at most one socket is connecting or open, and at most one
\* reconnect timer is pending.
C37_OneConnectionOneTimer ==
    /\ Cardinality({s \in DOMAIN socks : socks[s] \in {"connecting", "open"}}) <= 1
    /\ Len(reconnTimers) <= 1

\* C38 (as claimed): fallbackToPolling installs at most one polling interval.
C38_PollingInstalledOnce == pollers <= 1

\* C39 (as claimed): isConnected is true exactly when the socket created last is
\* open.
C39_FlagTracksNewestSocket ==
    isConnected <=> socks[Len(socks)] = "open"

\* C40: wsReconnectAttempts is always from 0 to MAX_RECONNECT_ATTEMPTS; it changes
\* only to 0, in the open handler of a socket, or by one from below the cap, in the
\* scheduleReconnect call of an error or close handler.
C40_AttemptsWithinCap ==
    /\ [](wsReconnectAttempts \in 0..MAX_RECONNECT_ATTEMPTS)
    /\ [][wsReconnectAttempts' # wsReconnectAttempts =>
            \/ /\ wsReconnectAttempts' = 0
               /\ \E s \in DOMAIN socks : SocketOpens(s)
            \/ /\ wsReconnectAttempts < MAX_RECONNECT_ATTEMPTS
               /\ wsReconnectAttempts' = wsReconnectAttempts + 1
               /\ \E s \in DOMAIN socks : SocketErrors(s) \/ SocketCloses(s)]_vars

\* after an open reset the counter, failures brought it to the cap again and
\* scheduleReconnect, called at the cap, fell back to polling
C40_Witness ==
    /\ wsReconnectAttempts = MAX_RECONNECT_ATTEMPTS
    /\ hCapAt > 1
    /\ pollers > 0
    /\ \E s \in DOMAIN socks : socks[s] = "open"

\* a step of a health check: the timer fires, or the sendHealthCheck call ends
HealthStep == HealthCheckFires \/ HealthCheckEnds

\* C32: a health check changes none of lastProcessedBlock, the seen sets, the check
\* counters, the sales counter and the connection flag, and it neither starts nor
\* ends nor moves a check or a stream handler; while it is in flight every pending
\* call of a check can return.
C32_HealthCheckChangesNothing ==
    /\ [][HealthStep =>
            /\ UNCHANGED <<lastProcessedBlock, lastSeenTransfers, lastSeenSales, seenSales>>
            /\ UNCHANGED <<monitoringCount, checksStarted, salesCount, isConnected>>
            /\ UNCHANGED <<cyc, chk, hnd>>]_vars
    /\ [](healthCheck =>
            \A c \in Cycles :
                /\ cyc[c].pc # "idle" => ENABLED ChainCallReturns(c)
                /\ chk[c].pc # "idle" => ENABLED ApiCallReturns(c))

\* a health check is in flight while one check of the chain bot is in its loop and
\* after another found no new block and returned
C32_Witness ==
    /\ healthCheck
    /\ \E c \in Cycles : InPass(c)
    /\ \E c \in Cycles : cyc[c].pc = "idle" /\ cyc[c].skipped

====
